---- MODULE Spec2Model ----
(***************************************************************************)
(* Memory subsystem of commit_critic: the SQLite MemoryStore               *)
(* (src/memory/store.py) and the MemorySeeder pipeline                     *)
(* (src/memory/seeder.py) with the oracles it calls.                       *)
(***************************************************************************)
EXTENDS Integers, Sequences, FiniteSets, TLC

(***************************************************************************)
(* Bounds of the model.                                                    *)
(***************************************************************************)
\* repository ids that AUTOINCREMENT may hand out in one behaviour
MaxRepoId == 3
\* rows that direct create_* calls may insert in one behaviour, all
\* tables together
MaxDirectRows == 5
\* longest short commit history handed to seed, and the number of analyzer
\* calls that short histories may make in one behaviour
MaxCommits == 2
\* length of the one long commit history (more than one embedding chunk)
BulkCommits == 101

(***************************************************************************)
(* Null values.  Row ids start at 1, so 0 stands for SQL NULL in id        *)
(* columns; NullStr stands for None / NULL in text columns.                *)
(***************************************************************************)
NoId == 0
NullStr == "<null>"

\* src/config.py: Settings.exemplar_threshold
exemplar_threshold == 8
\* src/memory/embeddings.py: generate_batch, chunk_size
chunk_size == 100

(***************************************************************************)
(* Generic helpers.                                                        *)
(***************************************************************************)
Min(a, b) == IF a <= b THEN a ELSE b

RECURSIVE GCD(_, _)
GCD(a, b) == IF b = 0 THEN a ELSE GCD(b, a % b)

RECURSIVE SumSeq(_)
SumSeq(s) == IF s = <<>> THEN 0 ELSE Head(s) + SumSeq(Tail(s))

\* Python's sum(xs) / len(xs) as an exact fraction in lowest terms;
\* None (no scores) is the fraction with denominator 0.
NullAvg == [num |-> 0, den |-> 0]
MeanOrZero(xs) ==
    IF xs = <<>> THEN [num |-> 0, den |-> 1]
    ELSE LET s == SumSeq(xs)
             g == GCD(s, Len(xs))
         IN  [num |-> s \div g, den |-> Len(xs) \div g]
Mean(xs) ==
    IF xs = <<>> THEN NullAvg
    ELSE LET s == SumSeq(xs)
             g == GCD(s, Len(xs))
         IN  [num |-> s \div g, den |-> Len(xs) \div g]


(***************************************************************************)
(* State.                                                                  *)
(*  repositories, collaborators, exemplars, antipatterns: the four tables  *)
(*  of SCHEMA_SQL, each a set of rows; seq: the AUTOINCREMENT counters     *)
(*  (sqlite_sequence), the largest id ever handed out per table;           *)
(*  last_call: the most recent MemoryStore call and whether it returned    *)
(*  (ok) or raised.                                                        *)
(*  The remaining variables are one MemorySeeder.seed invocation: its      *)
(*  position pc, its arguments and locals, the progress events it has      *)
(*  emitted, the analyzer and embedding oracle calls it has made, and the  *)
(*  SeedingResult it returned.                                             *)
(***************************************************************************)
VARIABLES repositories, collaborators, exemplars, antipatterns, seq, last_call,
          pc, commits, repo_name, existing, repo, analysis_results, avg_score,
          texts, embeddings, counts, events, calls, embed_calls, result,
          error, scored

store == <<repositories, collaborators, exemplars, antipatterns, seq>>
locals == <<commits, repo_name, existing, repo, analysis_results, avg_score,
            texts, embeddings, counts, events, calls, embed_calls, result,
            error>>
vars == <<repositories, collaborators, exemplars, antipatterns, seq, last_call,
          pc, commits, repo_name, existing, repo, analysis_results, avg_score,
          texts, embeddings, counts, events, calls, embed_calls, result,
          error, scored>>

(***************************************************************************)
(* MemoryStore: rows and constraints of SCHEMA_SQL.  Every connection runs *)
(* PRAGMA foreign_keys = ON, so the REFERENCES clauses are enforced.       *)
(***************************************************************************)
\* deleted: how many rows the call deleted, cascades included;
\* nulled: how many collaborator_id references it set to NULL;
\* score: the score handed to a direct create_exemplar, else 0
\* args, returned: the arguments and the returned value of a query
Call(op, id, ok) ==
    [op |-> op, id |-> id, ok |-> ok, deleted |-> 0, nulled |-> 0,
     score |-> 0, args |-> <<>>, returned |-> <<>>]

\* the rows of a repository: the row itself and the rows that cascade
RowsOf(repo_id) ==
    Cardinality({ r \in repositories : r.id = repo_id })
      + Cardinality({ c \in collaborators : c.repo_id = repo_id })
      + Cardinality({ e \in exemplars : e.repo_id = repo_id })
      + Cardinality({ a \in antipatterns : a.repo_id = repo_id })

\* the references to the collaborators in gone
References(gone) ==
    Cardinality({ e \in exemplars : e.collaborator_id \in gone })
      + Cardinality({ a \in antipatterns : a.collaborator_id \in gone })


\* repositories: url TEXT UNIQUE (NULLs are distinct), name TEXT NOT NULL
RepositoryInsertOk(repos, data) ==
    data.url = NullStr \/ \A r \in repos : r.url # data.url

\* collaborators: repo_id REFERENCES repositories(id), UNIQUE(repo_id, name)
CollaboratorInsertOkNoUnique(repos, collabs, data) ==
    \E r \in repos : r.id = data.repo_id
CollaboratorInsertOk(repos, collabs, data) ==
    /\ \E r \in repos : r.id = data.repo_id
    /\ \A c \in collabs : ~(c.repo_id = data.repo_id /\ c.name = data.name)

\* embedding BLOB left NULL
NullEmbedding == [vector_of |-> [commit_type |-> NullStr, scope |-> NullStr,
                                 message |-> NullStr, files |-> <<>>]]

\* ExemplarCreate: score: int = Field(ge=8, le=10)
ExemplarCreateValidAny(data) == TRUE
ExemplarCreateValid(data) == data.score >= 8 /\ data.score <= 10

\* exemplars: CHECK(score >= 8 AND score <= 10), repo_id REFERENCES
\* repositories(id), collaborator_id REFERENCES collaborators(id),
\* UNIQUE(repo_id, commit_hash)
ExemplarInsertOk(repos, collabs, exs, data) ==
    /\ data.score >= 8 /\ data.score <= 10
    /\ \E r \in repos : r.id = data.repo_id
    /\ data.collaborator_id = NoId
          \/ \E c \in collabs : c.id = data.collaborator_id
    /\ \A e \in exs :
          ~(e.repo_id = data.repo_id /\ e.commit_hash = data.commit_hash)

\* antipatterns: repo_id REFERENCES repositories(id), collaborator_id
\* REFERENCES collaborators(id)
AntipatternInsertOkUnreferenced(repos, collabs, data) ==
    data.collaborator_id = NoId
       \/ \E c \in collabs : c.id = data.collaborator_id
AntipatternInsertOk(repos, collabs, data) ==
    /\ \E r \in repos : r.id = data.repo_id
    /\ data.collaborator_id = NoId
          \/ \E c \in collabs : c.id = data.collaborator_id

\* the row an INSERT adds: the supplied columns plus the AUTOINCREMENT id
WithId(data, id) == [f \in DOMAIN data \cup {"id"} |->
                        IF f = "id" THEN id ELSE data[f]]

\* (variant: the reference declared ON DELETE CASCADE)
SetNullAsCascade(rows, gone) ==
    { row \in rows : row.collaborator_id \notin gone }

\* collaborator_id ... ON DELETE SET NULL, for the deleted collaborator ids
SetNull(rows, gone) ==
    { IF row.collaborator_id \in gone
        THEN [row EXCEPT !.collaborator_id = NoId]
        ELSE row : row \in rows }

\* (variant: the reference declared without ON DELETE CASCADE and not
\* enforced)
CascadeDeleteMissing(rows, repo_id) == rows

\* repo_id ... ON DELETE CASCADE, for the deleted repository id
CascadeDelete(rows, repo_id) == { row \in rows : row.repo_id # repo_id }

\* ids of the collaborator rows a repository delete cascades to
CascadedCollaborators(repo_id) ==
    { c.id : c \in { x \in collaborators : x.repo_id = repo_id } }

\* DELETE FROM repositories WHERE id = ?  with its cascades
DeleteRepositoryRows(repo_id) ==
    /\ repositories' = { r \in repositories : r.id # repo_id }
    /\ collaborators' = CascadeDelete(collaborators, repo_id)
    /\ exemplars' = SetNull(CascadeDelete(exemplars, repo_id),
                            CascadedCollaborators(repo_id))
    /\ antipatterns' = SetNull(CascadeDelete(antipatterns, repo_id),
                               CascadedCollaborators(repo_id))
    /\ seq' = seq


(***************************************************************************)
(* MemoryStore methods called directly by a client of the store.  Each is  *)
(* one transaction of _get_connection: commit on success, rollback and     *)
(* re-raise on any exception.  They run while no seed is in progress       *)
(* (single process, single invocation).                                    *)
(***************************************************************************)
Names == {"x", "y"}
Urls == {NullStr, "https://example.com/u.git"}
Authors == {"alice", "bob"}
\* scores handed to ExemplarCreate directly: around and beyond [8, 10]
DirectScores == {7, 8, 11}
\* the repo_name and repo_url handed to seed: one repository, seeded and
\* re-seeded under its name and remote URL
SeedNames == {"x"}
SeedUrls == Urls \ {NullStr}

Idle == pc = "idle"

\* MemoryStore.create_repository
create_repository(name, url) ==
    LET data == [name |-> name, url |-> url] IN
    /\ Idle
    /\ seq.repositories < MaxRepoId
    /\ IF RepositoryInsertOk(repositories, data)
         THEN /\ repositories' = repositories
                     \cup {WithId(data, seq.repositories + 1)}
              /\ seq' = [seq EXCEPT !.repositories = @ + 1]
              /\ last_call' = Call("create_repository",
                                   seq.repositories + 1, TRUE)
         ELSE /\ UNCHANGED <<repositories, seq>>
              /\ last_call' = Call("create_repository", NoId, FALSE)
    /\ UNCHANGED <<collaborators, exemplars, antipatterns, pc, locals, scored>>

\* MemoryStore.create_collaborator
create_collaborator(repo_id, name) ==
    LET data == [repo_id |-> repo_id, name |-> name, commit_count |-> 0,
                 avg_score |-> NullAvg, primary_areas |-> <<>>,
                 roast_patterns |-> <<>>] IN
    /\ Idle
    /\ IF CollaboratorInsertOk(repositories, collaborators, data)
         THEN /\ collaborators' = collaborators
                     \cup {WithId(data, seq.collaborators + 1)}
              /\ seq' = [seq EXCEPT !.collaborators = @ + 1]
              /\ last_call' = Call("create_collaborator",
                                   seq.collaborators + 1, TRUE)
         ELSE /\ UNCHANGED <<collaborators, seq>>
              /\ last_call' = Call("create_collaborator", NoId, FALSE)
    /\ UNCHANGED <<repositories, exemplars, antipatterns, pc, locals, scored>>

\* ExemplarCreate(...) and MemoryStore.create_exemplar: the constructor
\* raises ValidationError before the store is called, or the row is
\* inserted, or the INSERT raises and is rolled back
create_exemplar(repo_id, collaborator_id, commit_hash, score) ==
    LET data == [repo_id |-> repo_id, collaborator_id |-> collaborator_id,
                 commit_hash |-> commit_hash, message |-> "WIP",
                 score |-> score, commit_type |-> NullStr, scope |-> NullStr,
                 embedding |-> NullEmbedding] IN
    /\ Idle
    /\ IF ~ExemplarCreateValid(data)
         THEN /\ UNCHANGED <<exemplars, seq>>
              /\ last_call' = [Call("ExemplarCreate", NoId, FALSE) EXCEPT
                                 !.score = score]
         ELSE IF ExemplarInsertOk(repositories, collaborators, exemplars,
                                  data)
         THEN /\ exemplars' = exemplars \cup {WithId(data, seq.exemplars + 1)}
              /\ seq' = [seq EXCEPT !.exemplars = @ + 1]
              /\ last_call' = [Call("create_exemplar", seq.exemplars + 1,
                                    TRUE) EXCEPT !.score = score]
         ELSE /\ UNCHANGED <<exemplars, seq>>
              /\ last_call' = [Call("create_exemplar", NoId, FALSE) EXCEPT
                                 !.score = score]
    /\ UNCHANGED <<repositories, collaborators, antipatterns, pc, locals,
                   scored>>

\* MemoryStore.create_antipattern
create_antipattern(repo_id, collaborator_id) ==
    LET data == [repo_id |-> repo_id, collaborator_id |-> collaborator_id,
                 pattern_type |-> "wip-chain", example_message |-> "WIP",
                 frequency |-> 5] IN
    /\ Idle
    /\ IF AntipatternInsertOk(repositories, collaborators, data)
         THEN /\ antipatterns' = antipatterns
                     \cup {WithId(data, seq.antipatterns + 1)}
              /\ seq' = [seq EXCEPT !.antipatterns = @ + 1]
              /\ last_call' = Call("create_antipattern",
                                   seq.antipatterns + 1, TRUE)
         ELSE /\ UNCHANGED <<antipatterns, seq>>
              /\ last_call' = Call("create_antipattern", NoId, FALSE)
    /\ UNCHANGED <<repositories, collaborators, exemplars, pc, locals, scored>>

\* MemoryStore.delete_repository
delete_repository(repo_id) ==
    /\ Idle
    /\ DeleteRepositoryRows(repo_id)
    /\ last_call' = [Call("delete_repository", repo_id, TRUE) EXCEPT
                       !.deleted = RowsOf(repo_id),
                       !.nulled = References(CascadedCollaborators(repo_id))]
    /\ UNCHANGED <<pc, locals, scored>>

\* DELETE FROM collaborators WHERE id = ?  under SCHEMA_SQL: the store has
\* no method for it; the schema fixes what such a delete does to the rows
\* that reference the collaborator.
delete_collaborator_row(collab_id) ==
    /\ Idle
    /\ collaborators' = { c \in collaborators : c.id # collab_id }
    /\ exemplars' = SetNull(exemplars,
                            {c.id : c \in {x \in collaborators :
                                              x.id = collab_id}})
    /\ antipatterns' = SetNull(antipatterns,
                               {c.id : c \in {x \in collaborators :
                                                 x.id = collab_id}})
    /\ last_call' = [Call("delete_collaborator_row", collab_id, TRUE) EXCEPT
                       !.deleted = Cardinality({ c \in collaborators :
                                                   c.id = collab_id }),
                       !.nulled = References({collab_id})]
    /\ UNCHANGED <<repositories, seq, pc, locals, scored>>

\* MemoryStore.clear_all: four DELETEs in one transaction; the
\* AUTOINCREMENT counters are not reset by DELETE
clear_allChildrenOnly ==
    /\ Idle
    /\ antipatterns' = {}
    /\ exemplars' = {}
    /\ collaborators' = {}
    /\ repositories' = repositories
    /\ last_call' = [Call("clear_all", NoId, TRUE) EXCEPT
                       !.deleted = Cardinality(collaborators)
                                     + Cardinality(exemplars)
                                     + Cardinality(antipatterns)]
    /\ UNCHANGED <<seq, pc, locals, scored>>
clear_all ==
    /\ Idle
    /\ antipatterns' = {}
    /\ exemplars' = {}
    /\ collaborators' = {}
    /\ repositories' = {}
    /\ last_call' = [Call("clear_all", NoId, TRUE) EXCEPT
                       !.deleted = Cardinality(repositories)
                                     + Cardinality(collaborators)
                                     + Cardinality(exemplars)
                                     + Cardinality(antipatterns)]
    /\ UNCHANGED <<seq, pc, locals, scored>>


(***************************************************************************)
(* Commit histories handed to seed (CommitInfo, src/vcs/operations.py).    *)
(* A path is the sequence of its parts; files_changed is either a list of  *)
(* paths (get_commits) or a bare count (the test fixtures).                *)
(***************************************************************************)
FileList(paths) == [is_list |-> TRUE, paths |-> paths, count |-> 0]
FileCount(n) == [is_list |-> FALSE, paths |-> <<>>, count |-> n]

MsgWip == "WIP"
MsgFeat == "feat(auth): add login"
MsgDocs == "docs: update README"
MsgWorkInProgress == "work in progress"

\* history A: one author who only ever writes "WIP"
HistoryA(k) == [hash |-> k, message |-> MsgWip, author |-> "alice",
                files_changed |-> FileList(<< <<"src", "cli.py">> >>)]

\* history B: two authors taking turns, conventional messages
HistoryB(k) ==
    IF k % 2 = 1
      THEN [hash |-> 1000 + k, message |-> MsgFeat, author |-> "alice",
            files_changed |-> FileList(<< <<"src", "auth", "login.py">>,
                                          <<"tests", "test_login.py">> >>)]
      ELSE [hash |-> 1000 + k, message |-> MsgDocs, author |-> "bob",
            files_changed |-> FileList(<< <<"README.md">> >>)]

\* the same commit carrying only the number of changed files
CountForm(c) ==
    [c EXCEPT !.files_changed = FileCount(Len(c.files_changed.paths))]

ShortHistories ==
    { [k \in 1..n |-> HistoryA(k)] : n \in 0..MaxCommits }
      \cup { [k \in 1..n |-> HistoryB(k)] : n \in 1..MaxCommits }
      \cup { [k \in 1..n |-> CountForm(HistoryB(k))] : n \in 1..MaxCommits }

\* three WIP commits, then the alternating history
LongHistory ==
    [k \in 1..BulkCommits |-> IF k <= 3 THEN HistoryA(k) ELSE HistoryB(k)]

\* the scoring oracle's answers: it raises, or returns a score; for the
\* long history it is taken to answer 9 throughout
Raises == 0
Scores == {7, 8}
AnalyzerOutcomes(history) ==
    IF history = LongHistory THEN {9} ELSE Scores \cup {Raises}

(***************************************************************************)
(* Text functions of the extractors on the messages above.                 *)
(***************************************************************************)
\* parse_conventional_commit: (type, scope) of "type(scope): description"
\* when type is one of CONVENTIONAL_TYPES, else (None, None)
parse_conventional_commit(message) ==
    CASE message = MsgFeat -> [commit_type |-> "feat", scope |-> "auth"]
      [] message = MsgDocs -> [commit_type |-> "docs", scope |-> NullStr]
      [] OTHER -> [commit_type |-> NullStr, scope |-> NullStr]

\* f.split("/")[-1]
FileName(path) == path[Len(path)]

\* format_commit_for_embedding: the parts that " | ".join puts in the text
format_commit_for_embedding(message, commit_type, scope, files_changed) ==
    [commit_type |-> commit_type, scope |-> scope, message |-> message,
     files |-> IF files_changed.is_list
                 THEN [j \in 1..Min(5, Len(files_changed.paths)) |->
                          FileName(files_changed.paths[j])]
                 ELSE <<>>]

\* the embedding oracle is a function of the text; _to_bytes packs the
\* vector it returns
EmbeddingOf(text) == [vector_of |-> text]

\* AntipatternExtractor._find_wip_chain: "wip" in msg.lower().strip()
\* or msg == "work in progress"
IsWip(message) == message \in {MsgWip, MsgWorkInProgress}

\* AntipatternExtractor._count_one_word: len(message.strip().split()) == 1
IsOneWord(message) == message = MsgWip

\* AntipatternExtractor._count_vague: some VAGUE_PATTERNS regex matches
IsVague(message) == message \in {MsgWip, MsgWorkInProgress}


(***************************************************************************)
(* AntipatternExtractor (src/memory/extractor.py).  A detected pattern is  *)
(* the tuple (pattern_type, example, count).                               *)
(***************************************************************************)
Pattern(type, example, count) ==
    [pattern_type |-> type, example |-> example, count |-> count]

\* the loop of _find_wip_chain from commit k on
RECURSIVE WipScan(_, _, _, _, _)
WipScan(cs, k, max_chain, current_chain, example) ==
    IF k > Len(cs) THEN [example |-> example, count |-> max_chain]
    ELSE IF IsWip(cs[k].message)
      THEN IF current_chain + 1 > max_chain
             THEN WipScan(cs, k + 1, current_chain + 1, current_chain + 1,
                          cs[k].message)
             ELSE WipScan(cs, k + 1, max_chain, current_chain + 1, example)
      ELSE WipScan(cs, k + 1, max_chain, 0, example)

\* AntipatternExtractor._find_wip_chain
find_wip_chainTotal(cs) ==
    [example |-> WipScan(cs, 1, 0, 0, "").example,
     count |-> Len(SelectSeq(cs, LAMBDA c : IsWip(c.message)))]
find_wip_chain(cs) == WipScan(cs, 1, 0, 0, "")

\* AntipatternExtractor._count_one_word: (first one-word message or "", count)
count_one_word(cs) ==
    LET hit == SelectSeq(cs, LAMBDA c : IsOneWord(c.message))
    IN  [example |-> IF hit = <<>> THEN "" ELSE hit[1].message,
         count |-> Len(hit)]

\* AntipatternExtractor._count_vague: (first vague message or "", count)
count_vague(cs) ==
    LET hit == SelectSeq(cs, LAMBDA c : IsVague(c.message))
    IN  [example |-> IF hit = <<>> THEN "" ELSE hit[1].message,
         count |-> Len(hit)]

\* AntipatternExtractor._analyze_author_commits
analyze_author_commits(cs) ==
    (IF find_wip_chain(cs).count >= 3
       THEN << Pattern("wip-chain", find_wip_chain(cs).example,
                       find_wip_chain(cs).count) >>
       ELSE <<>>)
    \o (IF count_one_word(cs).count >= 3
          THEN << Pattern("one-word", count_one_word(cs).example,
                          count_one_word(cs).count) >>
          ELSE <<>>)
    \o (IF count_vague(cs).count >= 3
          THEN << Pattern("vague", count_vague(cs).example,
                          count_vague(cs).count) >>
          ELSE <<>>)

\* commits_by_author[author]: the author's commits in input order
CommitsOf(cs, author) == SelectSeq(cs, LAMBDA c : c.author = author)

\* the keys of commits_by_author in insertion order (first occurrence)
AuthorOrder(cs) ==
    LET first == SelectSeq([k \in 1..Len(cs) |-> k],
                     LAMBDA k : \A j \in 1..(k - 1) :
                                   cs[j].author # cs[k].author)
    IN  [k \in 1..Len(first) |-> cs[first[k]].author]

\* AntipatternExtractor.extract_antipatterns: an author is a key of the
\* result exactly when the sequence is not empty
extract_antipatterns(cs, author) == analyze_author_commits(CommitsOf(cs, author))

(***************************************************************************)
(* MemorySeeder helpers (src/memory/seeder.py).                            *)
(***************************************************************************)
\* the area of one path in _detect_primary_areas
AreaOf(path) == IF Len(path) >= 2 THEN <<path[1], path[2]>> ELSE <<path[1]>>

RECURSIVE AllPaths(_)
AllPaths(cs) ==
    IF cs = <<>> THEN <<>>
    ELSE Head(cs).files_changed.paths \o AllPaths(Tail(cs))

\* iterating an int raises TypeError
AreasRaise(cs) == \E k \in 1..Len(cs) : ~cs[k].files_changed.is_list

\* Counter.most_common(n): by count, ties in insertion order
MostCommon(items, n) ==
    LET firsts == SelectSeq([k \in 1..Len(items) |-> k],
                     LAMBDA k : \A j \in 1..(k - 1) : items[j] # items[k])
        Cnt(k) == Cardinality({ j \in 1..Len(items) : items[j] = items[k] })
        Rank(k) == 1 + Cardinality({ j \in 1..Len(firsts) :
                        \/ Cnt(firsts[j]) > Cnt(firsts[k])
                        \/ Cnt(firsts[j]) = Cnt(firsts[k]) /\ j < k })
    IN  [r \in 1..Min(n, Len(firsts)) |->
            items[firsts[CHOOSE k \in 1..Len(firsts) : Rank(k) = r]]]

\* MemorySeeder._detect_primary_areas, when it does not raise
detect_primary_areas(cs) ==
    LET paths == SelectSeq(AllPaths(cs), LAMBDA p : Len(p) >= 1)
    IN  MostCommon([k \in 1..Len(paths) |-> AreaOf(paths[k])], 3)

\* score_map = {r.commit.hash: r.score for r in results}
InScoreMap(results, hash) == \E k \in 1..Len(results) : results[k].commit.hash = hash
ScoreMap(results, hash) ==
    LET hits == SelectSeq(results, LAMBDA r : r.commit.hash = hash)
    IN  hits[Len(hits)].score

\* scores_by_author[author]
ScoresOf(cs, results, author) ==
    LET scored_commits == SelectSeq(CommitsOf(cs, author),
                              LAMBDA c : InScoreMap(results, c.hash))
    IN  [k \in 1..Len(scored_commits) |-> ScoreMap(results, scored_commits[k].hash)]

\* exemplars = [r for r in results if r.score >= threshold]
ExemplarResultsAbove(results) ==
    SelectSeq(results, LAMBDA r : r.score > exemplar_threshold)
ExemplarResults(results) ==
    SelectSeq(results, LAMBDA r : r.score >= exemplar_threshold)

\* messages_to_embed
TextsToEmbed(results) ==
    [k \in 1..Len(ExemplarResults(results)) |->
        LET c == ExemplarResults(results)[k].commit
        IN  format_commit_for_embedding(
                c.message,
                parse_conventional_commit(c.message).commit_type,
                parse_conventional_commit(c.message).scope,
                c.files_changed)]


\* the loop "for result, embedding in zip(exemplars, embeddings)" of
\* _extract_exemplars from pair j on; each create_exemplar is its own
\* transaction, so a raise keeps the rows saved before it
RECURSIVE SaveExemplars(_, _, _, _, _)
SaveExemplars(j, found, embs, repo_id, acc) ==
    IF j > Min(Len(found), Len(embs)) THEN acc
    ELSE LET data == [repo_id |-> repo_id, collaborator_id |-> NoId,
                      commit_hash |-> found[j].commit.hash,
                      message |-> found[j].commit.message,
                      score |-> found[j].score,
                      commit_type |->
                        parse_conventional_commit(found[j].commit.message).commit_type,
                      scope |->
                        parse_conventional_commit(found[j].commit.message).scope,
                      embedding |-> embs[j]]
         IN  IF /\ ExemplarCreateValid(data)
                /\ ExemplarInsertOk(repositories, collaborators,
                                    acc.exemplars, data)
               THEN SaveExemplars(j + 1, found, embs, repo_id,
                        [exemplars |-> acc.exemplars
                                         \cup {WithId(data, acc.next + 1)},
                         next |-> acc.next + 1, ok |-> TRUE])
               ELSE [acc EXCEPT !.ok = FALSE]

\* _profile_contributors, lines 327-330 and 342-346: the patterns found for
\* an author, none when the extractor is skipped
PatternsOfAuthorUnskipped(include_roasts, cs, author) ==
    extract_antipatterns(cs, author)
PatternsOfAuthor(include_roasts, cs, author) ==
    IF include_roasts THEN extract_antipatterns(cs, author) ELSE <<>>

\* the loop "for author, author_commits in commits_by_author.items()" of
\* _profile_contributors; create_collaborator and each create_antipattern
\* are transactions of their own
RECURSIVE ProfileLoop(_, _, _, _, _, _)
ProfileLoop(authors, cs, results, repo_id, include_roasts, acc) ==
    IF authors = <<>> THEN acc
    ELSE
      LET author == Head(authors)
          author_commits == CommitsOf(cs, author)
          patterns == PatternsOfAuthor(include_roasts, cs, author)
          data == [repo_id |-> repo_id, name |-> author,
                   commit_count |-> Len(author_commits),
                   avg_score |-> Mean(ScoresOf(cs, results, author)),
                   primary_areas |-> detect_primary_areas(author_commits),
                   roast_patterns |-> patterns]
          collab_id == acc.next_collaborator + 1
          rows == { WithId([repo_id |-> repo_id,
                            collaborator_id |-> collab_id,
                            pattern_type |-> patterns[k].pattern_type,
                            example_message |-> patterns[k].example,
                            frequency |-> patterns[k].count],
                           acc.next_antipattern + k) :
                    k \in 1..Len(patterns) }
      IN  IF AreasRaise(author_commits)
            THEN [acc EXCEPT !.error = "TypeError"]
          ELSE IF ~CollaboratorInsertOk(repositories, acc.collaborators, data)
            THEN [acc EXCEPT !.error = "IntegrityError"]
          ELSE ProfileLoop(Tail(authors), cs, results, repo_id,
                 include_roasts,
                 [collaborators |-> acc.collaborators
                                      \cup {WithId(data, collab_id)},
                  antipatterns |-> acc.antipatterns \cup rows,
                  next_collaborator |-> collab_id,
                  next_antipattern |-> acc.next_antipattern + Len(patterns),
                  has_roasts |-> acc.has_roasts \/ patterns # <<>>,
                  error |-> "none"])

\* sorted(response.data, key=lambda x: x.index)
SortByIndexAsListed(data) == data
SortByIndex(data) ==
    [j \in 1..Len(data) |->
        data[CHOOSE k \in 1..Len(data) : data[k].index = j - 1]]

\* the orders in which the embedding oracle may list a chunk's results
ResponseOrders(n) == { [j \in 1..n |-> j], [j \in 1..n |-> n + 1 - j] }

(***************************************************************************)
(* MemorySeeder.seed, one action per block of the method.                  *)
(* repo_url, include_roasts and include_market_comparison are arguments    *)
(* of the call; each is drawn by the action that first reads it.           *)
(***************************************************************************)
\* a SeedingProgress event: phase, status and progress, and for the
\* per-commit events the message f"[{i + 1}/{total}] {commit.message[:50]}..."
NoProgress == NullAvg
Event(phase, status, progress) ==
    [phase |-> phase, status |-> status, progress |-> progress,
     message |-> [i |-> 0, total |-> 0, text |-> NullStr]]

NoCounts == [exemplars |-> 0, collaborators |-> 0, has_roasts |-> FALSE,
             include_roasts |-> FALSE]
NoResult == [repo_id |-> NoId, repo_name |-> NullStr, commit_count |-> 0,
             average_score |-> NullAvg, exemplar_count |-> 0,
             collaborator_count |-> 0, antipattern_count |-> 0,
             has_roasts |-> FALSE]

NoSeed ==
    /\ commits = <<>>
    /\ repo_name = NullStr
    /\ existing = NoId
    /\ repo = NoId
    /\ analysis_results = <<>>
    /\ avg_score = NullAvg
    /\ texts = <<>>
    /\ embeddings = <<>>
    /\ counts = NoCounts
    /\ events = <<>>
    /\ calls = <<>>
    /\ embed_calls = <<>>
    /\ result = NoResult
    /\ error = "none"

Init ==
    /\ repositories = {}
    /\ collaborators = {}
    /\ exemplars = {}
    /\ antipatterns = {}
    /\ seq = [repositories |-> 0, collaborators |-> 0, exemplars |-> 0,
              antipatterns |-> 0]
    /\ last_call = Call("init", NoId, TRUE)
    /\ pc = "idle"
    /\ scored = 0
    /\ NoSeed

\* _emit_progress: the callback is handed the events in the order of
\* the calls
EmitPrepended(evs) == events' = evs \o events
Emit(evs) == events' = events \o evs

\* _analyze_commits, line 239: progress = ((i + 1) / total) * 100, here with
\* i counted from 1
PercentZeroBased(i, total) == [num |-> (i - 1) * 100, den |-> total]
Percent(i, total) == [num |-> i * 100, den |-> total]

\* _analyze_commits, lines 249-254: the result is appended, unless the call
\* raised and the commit is skipped
KeepResultOnRaise(results, commit, outcome) ==
    Append(results, [commit |-> commit, score |-> outcome])
KeepResult(results, commit, outcome) ==
    IF outcome = Raises THEN results
    ELSE Append(results, [commit |-> commit, score |-> outcome])

\* seed has no except or finally clause and every store call commits by
\* itself: when a phase raises, the repository rows stay as they are
AfterRaiseRolledBack(rows, repo_id) == { r \in rows : r.id # repo_id }
AfterRaise(rows, repo_id) == rows

\* seed, lines 134-138: look the name up and delete the row found
SeedBegin(history, name) ==
    /\ Idle
    /\ \/ history \in ShortHistories /\ scored + Len(history) <= MaxCommits
       \/ history = LongHistory /\ scored = 0
    /\ IF \E r \in repositories : r.name = name
         THEN \E r \in { x \in repositories : x.name = name } :
                /\ DeleteRepositoryRows(r.id)
                /\ existing' = r.id
                /\ last_call' =
                      [Call("delete_repository", r.id, TRUE) EXCEPT
                         !.deleted = RowsOf(r.id),
                         !.nulled = References(CascadedCollaborators(r.id))]
         ELSE /\ UNCHANGED store
              /\ existing' = NoId
              /\ last_call' = Call("get_repository_by_name", NoId, TRUE)
    /\ commits' = history
    /\ repo_name' = name
    /\ pc' = "phase3"
    /\ UNCHANGED <<repo, analysis_results, avg_score, texts, embeddings,
                   counts, events, calls, embed_calls, result, error, scored>>

\* seed, lines 140-149: phase 3
SeedPhase3 ==
    /\ pc = "phase3"
    /\ Emit(<<Event(3, "started", NoProgress), Event(3, "done", NoProgress)>>)
    /\ pc' = "phase4"
    /\ UNCHANGED <<store, last_call, commits, repo_name, existing, repo,
                   analysis_results, avg_score, texts, embeddings, counts,
                   calls, embed_calls, result, error, scored>>

\* seed, lines 151-157: phase 4
SeedPhase4 ==
    /\ pc = "phase4"
    /\ Emit(<<Event(4, "started", NoProgress), Event(4, "done", NoProgress)>>)
    /\ pc' = "create_repository"
    /\ UNCHANGED <<store, last_call, commits, repo_name, existing, repo,
                   analysis_results, avg_score, texts, embeddings, counts,
                   calls, embed_calls, result, error, scored>>

\* seed, lines 159-175: create the repository row, then start phase 5
SeedCreateRepository(repo_url) ==
    LET data == [name |-> repo_name, url |-> repo_url] IN
    /\ pc = "create_repository"
    /\ IF RepositoryInsertOk(repositories, data)
         THEN /\ seq.repositories < MaxRepoId
              /\ repositories' = repositories
                     \cup {WithId(data, seq.repositories + 1)}
              /\ seq' = [seq EXCEPT !.repositories = @ + 1]
              /\ last_call' = Call("create_repository",
                                   seq.repositories + 1, TRUE)
              /\ repo' = seq.repositories + 1
              /\ Emit(<<Event(5, "started", NoProgress)>>)
              /\ pc' = "phase5"
              /\ error' = error
         ELSE /\ UNCHANGED <<repositories, seq, repo, events>>
              /\ last_call' = Call("create_repository", NoId, FALSE)
              /\ pc' = "failed"
              /\ error' = "IntegrityError"
    /\ UNCHANGED <<collaborators, exemplars, antipatterns, commits, repo_name,
                   existing, analysis_results, avg_score, texts, embeddings,
                   counts, calls, embed_calls, result, scored>>


\* _analyze_commits, one iteration of the loop: emit the progress event,
\* call the analyzer, keep the result unless the call raised
SeedAnalyzeCommit(outcome) ==
    LET i == Len(calls)
        total == Len(commits) IN
    /\ pc = "phase5"
    /\ i < total
    /\ outcome \in AnalyzerOutcomes(commits)
    /\ Emit(<<[Event(5, "progress", Percent(i + 1, total))
                 EXCEPT !.message = [i |-> i + 1, total |-> total,
                                     text |-> commits[i + 1].message]]>>)
    /\ calls' = Append(calls, [hash |-> commits[i + 1].hash,
                               outcome |-> outcome])
    /\ scored' = scored + 1
    /\ analysis_results' = KeepResult(analysis_results, commits[i + 1],
                                      outcome)
    /\ UNCHANGED <<store, last_call, pc, commits, repo_name, existing, repo,
                   avg_score, texts, embeddings, counts, embed_calls, result,
                   error>>

\* seed, lines 176-184: the loop is over; average and end of phase 5
SeedPhase5Done ==
    /\ pc = "phase5"
    /\ Len(calls) = Len(commits)
    /\ avg_score' =
          IF analysis_results = <<>> THEN [num |-> 0, den |-> 1]
          ELSE Mean([k \in 1..Len(analysis_results) |->
                        analysis_results[k].score])
    /\ Emit(<<Event(5, "done", NoProgress)>>)
    /\ pc' = "phase6"
    /\ UNCHANGED <<store, last_call, commits, repo_name, existing, repo,
                   analysis_results, texts, embeddings, counts, calls,
                   embed_calls, result, error, scored>>

\* seed, line 187, and _extract_exemplars up to the generate_batch call;
\* with nothing to embed it returns 0 and phase 6 is done
SeedPhase6StartSavesFirst ==
    LET found == ExemplarResults(analysis_results)
        saved == SaveExemplars(1, found,
                               [k \in 1..Len(found) |-> NullEmbedding], repo,
                               [exemplars |-> exemplars,
                                next |-> seq.exemplars, ok |-> TRUE]) IN
    /\ pc = "phase6"
    /\ IF found = <<>>
         THEN /\ Emit(<<Event(6, "started", NoProgress),
                        Event(6, "done", NoProgress)>>)
              /\ counts' = [counts EXCEPT !.exemplars = 0]
              /\ texts' = texts
              /\ pc' = "phase7"
         ELSE /\ Emit(<<Event(6, "started", NoProgress)>>)
              /\ counts' = counts
              /\ texts' = TextsToEmbed(analysis_results)
              /\ pc' = "generate_batch"
    /\ exemplars' = saved.exemplars
    /\ seq' = [seq EXCEPT !.exemplars = saved.next]
    /\ UNCHANGED <<repositories, collaborators, antipatterns, last_call,
                   commits, repo_name, existing, repo, analysis_results,
                   avg_score, embeddings, calls, embed_calls, result, error,
                   scored>>
SeedPhase6Start ==
    /\ pc = "phase6"
    /\ IF ExemplarResults(analysis_results) = <<>>
         THEN /\ Emit(<<Event(6, "started", NoProgress),
                        Event(6, "done", NoProgress)>>)
              /\ counts' = [counts EXCEPT !.exemplars = 0]
              /\ texts' = texts
              /\ pc' = "phase7"
         ELSE /\ Emit(<<Event(6, "started", NoProgress)>>)
              /\ counts' = counts
              /\ texts' = TextsToEmbed(analysis_results)
              /\ pc' = "generate_batch"
    /\ UNCHANGED <<store, last_call, commits, repo_name, existing, repo,
                   analysis_results, avg_score, embeddings, calls,
                   embed_calls, result, error, scored>>

\* EmbeddingGenerator.generate_batch, one iteration of the chunk loop: the
\* oracle call raises, or answers with one item per text in some order
SeedEmbedChunkSwallowed ==
    LET i == Len(embeddings)
        chunk == SubSeq(texts, i + 1, Min(i + chunk_size, Len(texts))) IN
    /\ pc = "generate_batch"
    /\ embed_calls' = Append(embed_calls, Len(chunk))
    /\ \/ /\ pc' = "save_exemplars"
          /\ error' = error
          /\ embeddings' = embeddings
          /\ repositories' = repositories
       \/ \E order \in ResponseOrders(Len(chunk)) :
            LET data == [j \in 1..Len(chunk) |->
                           [index |-> order[j] - 1,
                            embedding |-> EmbeddingOf(chunk[order[j]])]]
                sorted_data == SortByIndex(data) IN
            /\ embeddings' = embeddings
                  \o [j \in 1..Len(chunk) |-> sorted_data[j].embedding]
            /\ pc' = IF i + Len(chunk) >= Len(texts)
                       THEN "save_exemplars" ELSE "generate_batch"
            /\ error' = error
            /\ repositories' = repositories
    /\ UNCHANGED <<collaborators, exemplars, antipatterns, seq, last_call,
                   commits, repo_name, existing, repo,
                   analysis_results, avg_score, texts, counts, events, calls,
                   result, scored>>
SeedEmbedChunk ==
    LET i == Len(embeddings)
        chunk == SubSeq(texts, i + 1, Min(i + chunk_size, Len(texts))) IN
    /\ pc = "generate_batch"
    /\ embed_calls' = Append(embed_calls, Len(chunk))
    /\ \/ /\ pc' = "failed"
          /\ error' = "EmbeddingError"
          /\ embeddings' = embeddings
          /\ repositories' = AfterRaise(repositories, repo)
       \/ \E order \in ResponseOrders(Len(chunk)) :
            LET data == [j \in 1..Len(chunk) |->
                           [index |-> order[j] - 1,
                            embedding |-> EmbeddingOf(chunk[order[j]])]]
                sorted_data == SortByIndex(data) IN
            /\ embeddings' = embeddings
                  \o [j \in 1..Len(chunk) |-> sorted_data[j].embedding]
            /\ pc' = IF i + Len(chunk) >= Len(texts)
                       THEN "save_exemplars" ELSE "generate_batch"
            /\ error' = error
            /\ repositories' = repositories
    /\ UNCHANGED <<collaborators, exemplars, antipatterns, seq, last_call,
                   commits, repo_name, existing, repo,
                   analysis_results, avg_score, texts, counts, events, calls,
                   result, scored>>

\* _extract_exemplars after generate_batch returned, and seed, lines 189-195
SeedSaveExemplars ==
    LET found == ExemplarResults(analysis_results)
        saved == SaveExemplars(1, found, embeddings, repo,
                               [exemplars |-> exemplars,
                                next |-> seq.exemplars, ok |-> TRUE]) IN
    /\ pc = "save_exemplars"
    /\ exemplars' = saved.exemplars
    /\ seq' = [seq EXCEPT !.exemplars = saved.next]
    /\ IF saved.ok
         THEN /\ last_call' = Call("create_exemplar", saved.next, TRUE)
              /\ counts' = [counts EXCEPT !.exemplars = Len(found)]
              /\ Emit(<<Event(6, "done", NoProgress)>>)
              /\ pc' = "phase7"
              /\ error' = error
              /\ repositories' = repositories
         ELSE /\ last_call' = Call("create_exemplar", NoId, FALSE)
              /\ UNCHANGED <<counts, events>>
              /\ pc' = "failed"
              /\ error' = "IntegrityError"
              /\ repositories' = AfterRaise(repositories, repo)
    /\ UNCHANGED <<collaborators, antipatterns, commits,
                   repo_name, existing, repo, analysis_results, avg_score,
                   texts, embeddings, calls, embed_calls, result, scored>>

\* seed, lines 197-208, with _profile_contributors
SeedPhase7(include_roasts) ==
    LET done == ProfileLoop(AuthorOrder(commits), commits, analysis_results,
                            repo, include_roasts,
                            [collaborators |-> collaborators,
                             antipatterns |-> antipatterns,
                             next_collaborator |-> seq.collaborators,
                             next_antipattern |-> seq.antipatterns,
                             has_roasts |-> FALSE, error |-> "none"]) IN
    /\ pc = "phase7"
    /\ collaborators' = done.collaborators
    /\ antipatterns' = done.antipatterns
    /\ seq' = [seq EXCEPT !.collaborators = done.next_collaborator,
                          !.antipatterns = done.next_antipattern]
    /\ last_call' = IF done.collaborators = collaborators THEN last_call
                    ELSE Call("create_collaborator",
                              done.next_collaborator, TRUE)
    /\ IF done.error = "none"
         THEN /\ counts' = [counts EXCEPT
                              !.collaborators = Len(AuthorOrder(commits)),
                              !.has_roasts = done.has_roasts,
                              !.include_roasts = include_roasts]
              /\ Emit(<<Event(7, "started", NoProgress),
                        Event(7, "done", NoProgress)>>)
              /\ pc' = "phase8"
              /\ error' = error
              /\ repositories' = repositories
         ELSE /\ counts' = [counts EXCEPT !.include_roasts = include_roasts]
              /\ Emit(<<Event(7, "started", NoProgress)>>)
              /\ pc' = "failed"
              /\ error' = done.error
              /\ repositories' = AfterRaise(repositories, repo)
    /\ UNCHANGED <<exemplars, commits, repo_name, existing,
                   repo, analysis_results, avg_score, texts, embeddings,
                   calls, embed_calls, result, scored>>

\* seed, lines 210-226: count the antipatterns, phase 8, return
SeedPhase8(include_market_comparison) ==
    /\ pc = "phase8"
    /\ Emit(IF include_market_comparison
              THEN <<Event(8, "started", NoProgress),
                     Event(8, "done", NoProgress)>>
              ELSE <<>>)
    /\ result' = [repo_id |-> repo, repo_name |-> repo_name,
                  commit_count |-> Len(commits),
                  average_score |-> avg_score,
                  exemplar_count |-> counts.exemplars,
                  collaborator_count |-> counts.collaborators,
                  antipattern_count |->
                     Cardinality({a \in antipatterns : a.repo_id = repo}),
                  has_roasts |-> counts.has_roasts]
    /\ pc' = "done"
    /\ UNCHANGED <<store, last_call, commits, repo_name, existing, repo,
                   analysis_results, avg_score, texts, embeddings, counts,
                   calls, embed_calls, error, scored>>

\* the caller takes the SeedingResult, or catches the exception, and the
\* invocation is over
SeedReturn ==
    /\ pc \in {"done", "failed"}
    /\ pc' = "idle"
    /\ commits' = <<>>
    /\ repo_name' = NullStr
    /\ existing' = NoId
    /\ repo' = NoId
    /\ analysis_results' = <<>>
    /\ avg_score' = NullAvg
    /\ texts' = <<>>
    /\ embeddings' = <<>>
    /\ counts' = NoCounts
    /\ events' = <<>>
    /\ calls' = <<>>
    /\ embed_calls' = <<>>
    /\ result' = NoResult
    /\ error' = "none"
    /\ UNCHANGED <<store, last_call, scored>>

\* rows inserted so far
DirectRows ==
    seq.repositories + seq.collaborators + seq.exemplars + seq.antipatterns

\* the store used directly; ids are drawn from those handed out so far, so
\* a deleted row's id is the dangling reference
NextStore ==
    \/ /\ DirectRows < MaxDirectRows
       /\ \/ \E name \in Names, url \in Urls : create_repository(name, url)
          \/ \E r \in 1..seq.repositories, name \in Authors :
                create_collaborator(r, name)
          \/ \E r \in 1..seq.repositories, c \in 0..seq.collaborators,
                score \in DirectScores : create_exemplar(r, c, 1, score)
          \/ \E r \in 1..seq.repositories, c \in 0..seq.collaborators :
                create_antipattern(r, c)
    \/ \E r \in 1..seq.repositories : delete_repository(r)
    \/ \E c \in 1..seq.collaborators : delete_collaborator_row(c)
    \/ clear_all

SpecStore == Init /\ [][NextStore]_vars

\* seeding, on a store that may also be cleared and given repository rows
\* directly
Next ==
    \/ \E name \in Names, url \in Urls : create_repository(name, url)
    \/ clear_all
    \/ \E history \in ShortHistories \cup {LongHistory}, name \in SeedNames :
          SeedBegin(history, name)
    \/ SeedPhase3
    \/ SeedPhase4
    \/ \E url \in SeedUrls : SeedCreateRepository(url)
    \/ \E outcome \in Scores \cup {Raises, 9} : SeedAnalyzeCommit(outcome)
    \/ SeedPhase5Done
    \/ SeedPhase6Start
    \/ SeedEmbedChunk
    \/ SeedSaveExemplars
    \/ \E include_roasts \in BOOLEAN : SeedPhase7(include_roasts)
    \/ \E include_market_comparison \in BOOLEAN :
          SeedPhase8(include_market_comparison)
    \/ SeedReturn

Spec == Init /\ [][Next]_vars

(***************************************************************************)
(* Seeding with an embedding oracle that may also answer with fewer items  *)
(* than texts.                                                             *)
(***************************************************************************)
\* the numbers of items the oracle may list for a chunk of n texts
ResponseLengths(n) == {n - 1, n}

\* EmbeddingGenerator.generate_batch, one iteration of the chunk loop
\* "for i in range(0, len(texts), chunk_size)": the oracle call raises, or
\* answers with response.data in some order, the items appended after
\* sorted(response.data, key=lambda x: x.index)
SeedEmbedChunkAnyResponse ==
    LET i == SumSeq(embed_calls)
        chunk == SubSeq(texts, i + 1, Min(i + chunk_size, Len(texts))) IN
    /\ pc = "generate_batch"
    /\ embed_calls' = Append(embed_calls, Len(chunk))
    /\ \/ /\ pc' = "failed"
          /\ error' = "EmbeddingError"
          /\ embeddings' = embeddings
          /\ repositories' = AfterRaise(repositories, repo)
       \/ \E n \in ResponseLengths(Len(chunk)) :
          \E order \in ResponseOrders(n) :
            LET data == [j \in 1..n |->
                           [index |-> order[j] - 1,
                            embedding |-> EmbeddingOf(chunk[order[j]])]]
                sorted_data == SortByIndex(data) IN
            /\ embeddings' = embeddings
                  \o [j \in 1..n |-> sorted_data[j].embedding]
            /\ pc' = IF i + Len(chunk) >= Len(texts)
                       THEN "save_exemplars" ELSE "generate_batch"
            /\ error' = error
            /\ repositories' = repositories
    /\ UNCHANGED <<collaborators, exemplars, antipatterns, seq, last_call,
                   commits, repo_name, existing, repo,
                   analysis_results, avg_score, texts, counts, events, calls,
                   result, scored>>

NextAnyOracle ==
    \/ \E name \in Names, url \in Urls : create_repository(name, url)
    \/ clear_all
    \/ \E history \in ShortHistories \cup {LongHistory}, name \in SeedNames :
          SeedBegin(history, name)
    \/ SeedPhase3
    \/ SeedPhase4
    \/ \E url \in SeedUrls : SeedCreateRepository(url)
    \/ \E outcome \in Scores \cup {Raises, 9} : SeedAnalyzeCommit(outcome)
    \/ SeedPhase5Done
    \/ SeedPhase6Start
    \/ SeedEmbedChunkAnyResponse
    \/ SeedSaveExemplars
    \/ \E include_roasts \in BOOLEAN : SeedPhase7(include_roasts)
    \/ \E include_market_comparison \in BOOLEAN :
          SeedPhase8(include_market_comparison)
    \/ SeedReturn

SpecAnyOracle == Init /\ [][NextAnyOracle]_vars

(***************************************************************************)
(* MemoryStore.find_similar_exemplars, called on a store that holds        *)
(* exemplars of two repositories.                                          *)
(***************************************************************************)
MaxStored == 3
MaxLimit == 3

\* the texts whose embeddings are stored or queried, and the vector the
\* embedding oracle gives each: np.frombuffer(embedding, dtype=np.float32)
TextOf(message) == [commit_type |-> NullStr, scope |-> NullStr,
                    message |-> message, files |-> <<>>]
StoredTexts == {"east", "north", "nowhere"}
QueryTexts == {"east", "northeast", "west"}
frombuffer(embedding) ==
    LET m == embedding.vector_of.message IN
    CASE m = "east" -> <<1, 0>>
      [] m = "north" -> <<0, 1>>
      [] m = "northeast" -> <<1, 1>>
      [] m = "west" -> <<-1, 0>>
      [] OTHER -> <<0, 0>>

Dot(a, b) == SumSeq([i \in 1..Len(a) |-> a[i] * b[i]])

\* _cosine_similarity: dot / (norm_a * norm_b), 0.0 when a norm is 0.
\* The value c is kept exactly, as the fraction sign(c) * c^2, which
\* orders as c does.
cosine_similarity(a, b) ==
    LET dot_product == Dot(a, b)
        sq_a == Dot(a, a)
        sq_b == Dot(b, b) IN
    IF sq_a = 0 \/ sq_b = 0 THEN [num |-> 0, den |-> 1]
    ELSE [num |-> (IF dot_product < 0 THEN -1 ELSE 1)
                    * dot_product * dot_product,
          den |-> sq_a * sq_b]

\* x < y for two similarities
Less(x, y) == x.num * y.den < y.num * x.den

\* list_exemplars(repo_id): SELECT ... WHERE repo_id = ? ORDER BY score DESC;
\* rows of equal score come in any order
list_exemplars(exs, repo_id) ==
    LET rows == { e \in exs : e.repo_id = repo_id }
        n == Cardinality(rows) IN
    { f \in [1..n -> rows] :
        \A i, j \in 1..n : i < j => (f[i] # f[j] /\ f[i].score >= f[j].score) }

\* results.sort(key=lambda x: x[1], reverse=True): a stable sort
SortBySimilarityAscending(results) ==
    LET n == Len(results)
        Before(j, k) ==
            \/ Less(results[j].similarity, results[k].similarity)
            \/ (results[j].similarity = results[k].similarity /\ j < k)
        pos(k) == 1 + Cardinality({ j \in 1..n : j # k /\ Before(j, k) }) IN
    [p \in 1..n |-> results[CHOOSE k \in 1..n : pos(k) = p]]
SortBySimilarity(results) ==
    LET n == Len(results)
        Before(j, k) ==
            \/ Less(results[k].similarity, results[j].similarity)
            \/ (results[j].similarity = results[k].similarity /\ j < k)
        pos(k) == 1 + Cardinality({ j \in 1..n : j # k /\ Before(j, k) }) IN
    [p \in 1..n |-> results[CHOOSE k \in 1..n : pos(k) = p]]

\* find_similar_exemplars on the listed rows
SimilarExemplars(listed, query_embedding, limit) ==
    IF listed = <<>> THEN <<>>
    ELSE LET query_vec == frombuffer(query_embedding)
             kept == SelectSeq(listed, LAMBDA e : e.embedding # NullEmbedding)
             results == [k \in 1..Len(kept) |->
                           [exemplar |-> kept[k],
                            similarity |->
                               cosine_similarity(query_vec,
                                   frombuffer(kept[k].embedding))]]
             sorted == SortBySimilarity(results) IN
         SubSeq(sorted, 1, Min(limit, Len(sorted)))

find_similar_exemplars(repo_id, query_embedding, limit) ==
    /\ Idle
    /\ \E listed \in list_exemplars(exemplars, repo_id) :
         last_call' = [Call("find_similar_exemplars", NoId, TRUE) EXCEPT
                         !.args = [repo_id |-> repo_id,
                                    embedding |-> query_embedding,
                                    limit |-> limit],
                         !.returned = SimilarExemplars(listed, query_embedding,
                                                    limit)]
    /\ UNCHANGED <<store, pc, locals, scored>>

\* a store with two repositories and up to MaxStored exemplar rows, each of
\* either repository, with or without a stored embedding, scored 8 to 10
StoredRow(k, repo_id, embedding) ==
    WithId([repo_id |-> repo_id, collaborator_id |-> NoId, commit_hash |-> k,
            message |-> MsgFeat, score |-> exemplar_threshold + (k % 3),
            commit_type |-> "feat", scope |-> "auth",
            embedding |-> embedding], k)
StoredEmbeddings ==
    {NullEmbedding} \cup { EmbeddingOf(TextOf(m)) : m \in StoredTexts }
InitSimilar ==
    /\ repositories = { WithId([name |-> "x", url |-> NullStr], 1),
                        WithId([name |-> "y", url |-> NullStr], 2) }
    /\ collaborators = {}
    /\ antipatterns = {}
    /\ \E m \in 0..MaxStored :
         /\ \E f \in [1..m -> (1..2) \X StoredEmbeddings] :
              exemplars = { StoredRow(k, f[k][1], f[k][2]) : k \in 1..m }
         /\ seq = [repositories |-> 2, collaborators |-> 0, exemplars |-> m,
                   antipatterns |-> 0]
    /\ last_call = Call("init", NoId, TRUE)
    /\ pc = "idle"
    /\ scored = 0
    /\ NoSeed

\* the rows are drawn for either repository, so the search is for one
NextSimilar ==
    \E m \in QueryTexts, limit \in 0..MaxLimit :
       find_similar_exemplars(1, EmbeddingOf(TextOf(m)), limit)

SpecSimilar == InitSimilar /\ [][NextSimilar]_vars

(***************************************************************************)
(* MemoryStore.list_exemplars with its limit and commit_type arguments.    *)
(***************************************************************************)
\* limit: int | None, as whether an int was passed and which
NoLimit == [given |-> FALSE, value |-> 0]
Limit(n) == [given |-> TRUE, value |-> n]
Limits == {NoLimit} \cup { Limit(n) : n \in 0..MaxLimit }
CommitTypes == {NullStr, "feat", "fix"}

\* "if commit_type:" and "if limit:", the truth value of the argument
Truthy(commit_type) == commit_type \notin {NullStr, ""}
LimitTruthy(limit) == limit.given /\ limit.value # 0

\* SELECT * FROM exemplars WHERE repo_id = ? [AND commit_type = ?]
\* ORDER BY score DESC [LIMIT ?]; rows of equal score come in any order
SelectExemplars(exs, repo_id, limit, commit_type) ==
    LET rows == { e \in exs :
                    /\ e.repo_id = repo_id
                    /\ Truthy(commit_type) => e.commit_type = commit_type }
        n == Cardinality(rows)
        ordered == { f \in [1..n -> rows] :
                       \A i, j \in 1..n :
                          i < j => (f[i] # f[j] /\ f[i].score >= f[j].score) }
    IN  { IF LimitTruthy(limit) THEN SubSeq(f, 1, Min(limit.value, n)) ELSE f :
          f \in ordered }

\* list_exemplars(repo_id, limit, commit_type)
ListExemplars(repo_id, limit, commit_type) ==
    /\ Idle
    /\ \E rows \in SelectExemplars(exemplars, repo_id, limit, commit_type) :
         last_call' = [Call("list_exemplars", NoId, TRUE) EXCEPT
                         !.args = [repo_id |-> repo_id, limit |-> limit,
                                    commit_type |-> commit_type],
                         !.returned = rows]
    /\ UNCHANGED <<store, pc, locals, scored>>

\* a store with two repositories and up to MaxStored exemplar rows, each of
\* either repository and of either commit type
InitList ==
    /\ repositories = { WithId([name |-> "x", url |-> NullStr], 1),
                        WithId([name |-> "y", url |-> NullStr], 2) }
    /\ collaborators = {}
    /\ antipatterns = {}
    /\ \E m \in 0..MaxStored :
         /\ \E f \in [1..m -> (1..2) \X {"feat", "fix"}] :
              exemplars = { [StoredRow(k, f[k][1], NullEmbedding) EXCEPT
                               !.commit_type = f[k][2]] : k \in 1..m }
         /\ seq = [repositories |-> 2, collaborators |-> 0, exemplars |-> m,
                   antipatterns |-> 0]
    /\ last_call = Call("init", NoId, TRUE)
    /\ pc = "idle"
    /\ scored = 0
    /\ NoSeed

\* the rows are drawn for either repository, so the listing is for one
NextList ==
    \E limit \in Limits, commit_type \in CommitTypes :
       ListExemplars(1, limit, commit_type)

SpecList == InitList /\ [][NextList]_vars

(***************************************************************************)
(* StyleExtractor.extract_style (src/memory/extractor.py), the pattern it  *)
(* returns.                                                                *)
(***************************************************************************)
MaxMessages == 10

\* ":sparkles: add login" matches EMOJI_PATTERN, "PROJ-12 add login" the
\* first of TICKET_PATTERNS, "fixed the bug" nothing
MsgEmoji == ":sparkles: add login"
MsgTicket == "PROJ-12 add login"
MsgFree == "fixed the bug"
\* "#12 fix crash" matches the second of TICKET_PATTERNS and
\* "[PROJ-12] add login" the third
MsgIssue == "#12 fix crash"
MsgBracketed == "[PROJ-12] add login"

\* TICKET_PATTERNS, the regular expressions in their order
TICKET_PATTERNS ==
    << "^([A-Z]{2,10}-\\d+)", "^#(\\d+)", "^\\[([A-Z]{2,10}-\\d+)\\]" >>
\* re.match(pattern, msg, re.IGNORECASE)
ReMatch(pattern, msg) ==
    \/ pattern = TICKET_PATTERNS[1] /\ msg = MsgTicket
    \/ pattern = TICKET_PATTERNS[2] /\ msg = MsgIssue
    \/ pattern = TICKET_PATTERNS[3] /\ msg = MsgBracketed

\* msg_lower.startswith(f"{t}(") or msg_lower.startswith(f"{t}:") for a t
\* of CONVENTIONAL_TYPES
StartsConventional(msg) == msg \in {MsgFeat, MsgDocs}
\* EMOJI_PATTERN.match(msg)
MatchesEmoji(msg) == msg = MsgEmoji
\* re.match(pattern, msg, re.IGNORECASE) for a pattern of TICKET_PATTERNS
MatchesTicket(msg) ==
    \E k \in 1..Len(TICKET_PATTERNS) : ReMatch(TICKET_PATTERNS[k], msg)

\* StyleExtractor._detect_pattern; count / total >= 0.3 in integers
detect_patternHighest(messages) ==
    LET conventional_count ==
            Len(SelectSeq(messages, LAMBDA m : StartsConventional(m)))
        emoji_count == Len(SelectSeq(messages, LAMBDA m : MatchesEmoji(m)))
        ticket_count == Len(SelectSeq(messages, LAMBDA m : MatchesTicket(m)))
        total == Len(messages)
        top == CHOOSE c \in {conventional_count, emoji_count, ticket_count} :
                 /\ c >= conventional_count
                 /\ c >= emoji_count
                 /\ c >= ticket_count IN
    IF top * 10 < 3 * total THEN "freeform"
    ELSE IF conventional_count = top THEN "conventional"
    ELSE IF emoji_count = top THEN "emoji"
    ELSE "ticket"
detect_pattern(messages) ==
    LET conventional_count ==
            Len(SelectSeq(messages, LAMBDA m : StartsConventional(m)))
        emoji_count == Len(SelectSeq(messages, LAMBDA m : MatchesEmoji(m)))
        ticket_count == Len(SelectSeq(messages, LAMBDA m : MatchesTicket(m)))
        total == Len(messages) IN
    IF conventional_count * 10 >= 3 * total THEN "conventional"
    ELSE IF emoji_count * 10 >= 3 * total THEN "emoji"
    ELSE IF ticket_count * 10 >= 3 * total THEN "ticket"
    ELSE "freeform"

\* StyleExtractor._detect_scopes: scope_pattern is ^\w+\(([^)]+)\):
ScopeOf(msg) == IF msg = MsgFeat THEN "auth" ELSE NullStr
detect_scopes(messages) ==
    LET matched == SelectSeq(messages, LAMBDA m : ScopeOf(m) # NullStr)
        scopes == [k \in 1..Len(matched) |-> ScopeOf(matched[k])] IN
    IF scopes = <<>> THEN [uses_scopes |-> FALSE, common_scopes |-> <<>>]
    ELSE [uses_scopes |-> Len(scopes) * 5 >= Len(messages),
          common_scopes |-> MostCommon(scopes, 10)]

\* StyleExtractor._detect_emoji
detect_emoji(messages) ==
    Len(SelectSeq(messages, LAMBDA m : MatchesEmoji(m))) * 5 >= Len(messages)

\* StyleExtractor._detect_ticket_pattern: the first pattern that matches
\* at least 0.2 of the messages, None when there is none
detect_ticket_pattern(messages) ==
    LET matches(k) ==
            Len(SelectSeq(messages, LAMBDA m : ReMatch(TICKET_PATTERNS[k], m)))
        reached == { k \in 1..Len(TICKET_PATTERNS) :
                       matches(k) * 5 >= Len(messages) } IN
    IF reached = {} THEN NullStr
    ELSE TICKET_PATTERNS[CHOOSE k \in reached : \A j \in reached : k <= j]

\* CommitStyle(), the defaults
CommitStyle ==
    [pattern |-> "freeform", uses_scopes |-> FALSE, common_scopes |-> <<>>,
     uses_emoji |-> FALSE, ticket_pattern |-> NullStr]

\* StyleExtractor.extract_style: CommitStyle() for no commits
extract_style(cs) ==
    LET messages == [k \in 1..Len(cs) |-> cs[k].message]
        scopes == detect_scopes(messages) IN
    /\ Idle
    /\ last_call' = [Call("extract_style", NoId, TRUE) EXCEPT
                       !.args = cs,
                       !.returned =
                          IF cs = <<>> THEN CommitStyle
                          ELSE [pattern |-> detect_pattern(messages),
                                uses_scopes |-> scopes.uses_scopes,
                                common_scopes |-> scopes.common_scopes,
                                uses_emoji |-> detect_emoji(messages),
                                ticket_pattern |->
                                   detect_ticket_pattern(messages)]]
    /\ UNCHANGED <<store, pc, locals, scored>>

(***************************************************************************)
(* AntipatternExtractor.extract_antipatterns called on a history of two    *)
(* authors.                                                                *)
(***************************************************************************)
MaxHistory == 5

\* what one commit of the history may be: its message and its author
WipCommits == {MsgWip, MsgWorkInProgress, MsgFree} \X Authors
WipHistories ==
    UNION { [1..n -> WipCommits] : n \in 0..MaxHistory }

\* the state before any call, with a history and scored results at hand
InitWith(cs, results) ==
    /\ repositories = {}
    /\ collaborators = {}
    /\ exemplars = {}
    /\ antipatterns = {}
    /\ seq = [repositories |-> 0, collaborators |-> 0, exemplars |-> 0,
              antipatterns |-> 0]
    /\ last_call = Call("init", NoId, TRUE)
    /\ pc = "idle"
    /\ scored = 0
    /\ commits = cs
    /\ repo_name = NullStr
    /\ existing = NoId
    /\ repo = NoId
    /\ analysis_results = results
    /\ avg_score = NullAvg
    /\ texts = <<>>
    /\ embeddings = <<>>
    /\ counts = NoCounts
    /\ events = <<>>
    /\ calls = <<>>
    /\ embed_calls = <<>>
    /\ result = NoResult
    /\ error = "none"

InitOn(cs) == InitWith(cs, <<>>)

InitWip ==
    \E h \in WipHistories :
       InitOn([k \in 1..Len(h) |->
                 [hash |-> k, message |-> h[k][1], author |-> h[k][2],
                  files_changed |-> FileCount(1)]])

\* extract_antipatterns(commits): per author the patterns found, the empty
\* sequence for an author who is not a key of the result
ExtractAntipatterns ==
    /\ Idle
    /\ last_call' = [Call("extract_antipatterns", NoId, TRUE) EXCEPT
                       !.args = commits,
                       !.returned = [a \in Authors |->
                                       extract_antipatterns(commits, a)]]
    /\ UNCHANGED <<store, pc, locals, scored>>

SpecWip == InitWip /\ [][ExtractAntipatterns]_vars

(***************************************************************************)
(* StyleExtractor.extract_style called on a history of conventional,       *)
(* emoji, ticket and other messages, the ticket messages of the three      *)
(* forms of TICKET_PATTERNS.                                               *)
(***************************************************************************)
\* a history of c conventional, e emoji and f other messages and of j, g
\* and b messages that match the first, second and third of TICKET_PATTERNS
StyleHistory(c, e, j, g, b, f) ==
    LET message(k) == IF k <= c THEN MsgFeat
                      ELSE IF k <= c + e THEN MsgEmoji
                      ELSE IF k <= c + e + j THEN MsgTicket
                      ELSE IF k <= c + e + j + g THEN MsgIssue
                      ELSE IF k <= c + e + j + g + b THEN MsgBracketed
                      ELSE MsgFree IN
    [k \in 1..(c + e + j + g + b + f) |->
        [hash |-> k, message |-> message(k), author |-> "alice",
         files_changed |-> FileCount(1)]]

InitStyle ==
    \E c, e, j, g, b, f \in 0..MaxMessages :
       /\ c + e + j + g + b + f <= MaxMessages
       /\ InitOn(StyleHistory(c, e, j, g, b, f))

\* extract_style(commits)
ExtractStyle == extract_style(commits)

SpecStyle == InitStyle /\ [][ExtractStyle]_vars

(***************************************************************************)
(* DNAExtractor._detect_languages (src/memory/extractor.py), called on a   *)
(* history whose changed files are listed.                                 *)
(***************************************************************************)
MaxFiles == 6

PyFile == <<"src", "cli.py">>
JsFile == <<"web", "app.js">>
JsxFile == <<"web", "view.jsx">>
TsFile == <<"web", "api.ts">>
TxtFile == <<"notes.txt">>

\* Path(file_path).suffix.lower()
Suffix(path) ==
    CASE FileName(path) = "cli.py" -> ".py"
      [] FileName(path) = "app.js" -> ".js"
      [] FileName(path) = "view.jsx" -> ".jsx"
      [] FileName(path) = "api.ts" -> ".ts"
      [] FileName(path) = "notes.txt" -> ".txt"
      [] OTHER -> ""

\* LANGUAGE_EXTENSIONS; NullStr for an extension that is not a key
LanguageOf(ext) ==
    CASE ext = ".py" -> "Python"
      [] ext \in {".js", ".jsx"} -> "JavaScript"
      [] ext = ".ts" -> "TypeScript"
      [] OTHER -> NullStr

\* round(num / den, 1) as an exact fraction over 10, halves to even
Round1(num, den) ==
    LET q == (10 * num) \div den
        r == (10 * num) % den IN
    [num |-> IF 2 * r > den \/ (2 * r = den /\ q % 2 = 1) THEN q + 1 ELSE q,
     den |-> 10]

\* DNAExtractor._detect_languages: commits whose files_changed is a count
\* contribute nothing
detect_languages(cs) ==
    LET listed == SelectSeq(cs, LAMBDA c : c.files_changed.is_list)
        paths == AllPaths(listed)
        langs == SelectSeq([k \in 1..Len(paths) |->
                              LanguageOf(Suffix(paths[k]))],
                           LAMBDA l : l # NullStr)
        total == Len(langs)
        Count(l) == Cardinality({ k \in 1..total : langs[k] = l })
        top == MostCommon(langs, 10)
        kept == SelectSeq(top, LAMBDA l : 100 * Count(l) >= total) IN
    [k \in 1..Len(kept) |->
        [language |-> kept[k],
         percentage |-> Round1(100 * Count(kept[k]), total)]]

\* a history of one commit that lists its files and one that counts them
DnaHistory(py, js, jsx, ts, txt) ==
    << [hash |-> 1, message |-> MsgFeat, author |-> "alice",
        files_changed |->
           FileList([k \in 1..py |-> PyFile] \o [k \in 1..js |-> JsFile]
                    \o [k \in 1..jsx |-> JsxFile] \o [k \in 1..ts |-> TsFile]
                    \o [k \in 1..txt |-> TxtFile])],
       [hash |-> 2, message |-> MsgDocs, author |-> "bob",
        files_changed |-> FileCount(2)] >>

InitDna ==
    \E py, js, jsx, ts, txt \in 0..MaxFiles :
       /\ py + js + jsx + ts + txt <= MaxFiles
       /\ InitOn(DnaHistory(py, js, jsx, ts, txt))

\* the values of ProjectType
ProjectTypes == {"cli-tool", "web-app", "web-framework", "library",
                 "api-service", "mobile-app", "data-pipeline", "unknown"}

\* what the chat oracle may do: raise, answer with no content (None), or
\* answer with some text
OracleRaises == "<raises>"
Responses == {OracleRaises, NullStr, "", "web-app", " Web-App\n",
              "a web app", "unknown"}

\* result.strip().lower()
StripLower(content) ==
    IF content = " Web-App\n" THEN "web-app" ELSE content

\* DNAExtractor._detect_project_type: the type, and the oracle calls made
detect_project_type(languages, response) ==
    IF languages = <<>>
      THEN [project_type |-> "unknown", oracle_calls |-> 0]
      ELSE [project_type |->
               IF response = OracleRaises THEN "unknown"
               ELSE IF response \in {NullStr, ""} THEN "unknown"
               ELSE IF StripLower(response) \in ProjectTypes
                      THEN StripLower(response)
               ELSE "unknown",
            oracle_calls |-> 1]

\* extract_dna(commits) with repo_path None: the CodebaseDNA it returns,
\* and the oracle calls it made
ExtractDna(response) ==
    LET languages == detect_languages(commits)
        typed == detect_project_type(languages, response) IN
    /\ Idle
    /\ last_call' = [Call("extract_dna", NoId, TRUE) EXCEPT
                       !.args = [commits |-> commits, response |-> response],
                       !.returned =
                          [primary_language |->
                              IF languages = <<>> THEN NullStr
                              ELSE languages[1].language,
                           languages |-> languages,
                           frameworks |-> <<>>,
                           project_type |-> typed.project_type,
                           oracle_calls |-> typed.oracle_calls]]
    /\ UNCHANGED <<store, pc, locals, scored>>

NextDna == \E response \in Responses : ExtractDna(response)

SpecDna == InitDna /\ [][NextDna]_vars

(***************************************************************************)
(* MemoryStore create_* followed by get_* (src/memory/store.py), with the  *)
(* rows held column by column as the INSERT statements write them.         *)
(***************************************************************************)
MaxRoundTrips == 3

\* the members of the three enums, each with its value
ProjectTypeMembers ==
    { <<"CLI_TOOL", "cli-tool">>, <<"WEB_APP", "web-app">>,
      <<"WEB_FRAMEWORK", "web-framework">>, <<"LIBRARY", "library">>,
      <<"API_SERVICE", "api-service">>, <<"MOBILE_APP", "mobile-app">>,
      <<"DATA_PIPELINE", "data-pipeline">>, <<"UNKNOWN", "unknown">> }
StylePatternMembers ==
    { <<"CONVENTIONAL", "conventional">>, <<"EMOJI", "emoji">>,
      <<"TICKET", "ticket">>, <<"FREEFORM", "freeform">> }
AntipatternTypeMembers ==
    { <<"WIP_CHAIN", "wip-chain">>, <<"ONE_WORD", "one-word">>,
      <<"VAGUE", "vague">>, <<"NO_CONTEXT", "no-context">>,
      <<"TOO_LONG", "too-long">>, <<"CAPS_ABUSE", "caps-abuse">> }
\* member.value
ValueOf(members, name) == (CHOOSE m \in members : m[1] = name)[2]
\* Enum(value)
MemberOf(members, value) == (CHOOSE m \in members : m[2] = value)[1]

\* json.dumps(list): the text as its tokens
json_dumps(xs) ==
    <<[kind |-> "["]>>
    \o [k \in 1..(IF xs = <<>> THEN 0 ELSE 2 * Len(xs) - 1) |->
          IF k % 2 = 1 THEN [kind |-> "value", value |-> xs[(k + 1) \div 2]]
          ELSE [kind |-> ","]]
    \o <<[kind |-> "]"]>>
\* json.loads(text) if text else []
json_loadsReversed(text) ==
    LET values == SelectSeq(text, LAMBDA t : t.kind = "value") IN
    [k \in 1..Len(values) |-> values[Len(values) + 1 - k].value]
json_loads(text) ==
    LET values == SelectSeq(text, LAMBDA t : t.kind = "value") IN
    [k \in 1..Len(values) |-> values[k].value]

\* lang.model_dump() and LanguageBreakdown(**lang)
model_dump(lang) ==
    <<"language", lang.language, "percentage", lang.percentage>>
LanguageBreakdown(dumped) ==
    [language |-> dumped[2], percentage |-> dumped[4]]

\* the row create_repository inserts; seeded_at, comparison_repos_json and
\* industry_percentile take their defaults
RepositoryRow(data, id) ==
    [id |-> id, url |-> data.url, name |-> data.name, seeded_at |-> "now",
     primary_language |-> data.primary_language,
     languages_json |->
        json_dumps([k \in 1..Len(data.languages) |->
                      model_dump(data.languages[k])]),
     frameworks_json |-> json_dumps(data.frameworks),
     project_type |-> ValueOf(ProjectTypeMembers, data.project_type),
     style_pattern |-> ValueOf(StylePatternMembers, data.style_pattern),
     uses_scopes |-> IF data.uses_scopes THEN 1 ELSE 0,
     common_scopes_json |-> json_dumps(data.common_scopes),
     ticket_pattern |-> data.ticket_pattern,
     comparison_repos_json |-> <<>>,
     industry_percentile |-> NullAvg]

\* MemoryStore._row_to_repository
row_to_repository(row) ==
    [id |-> row.id, url |-> row.url, name |-> row.name,
     seeded_at |-> row.seeded_at,
     primary_language |-> row.primary_language,
     languages |->
        LET loaded == json_loads(row.languages_json) IN
        [k \in 1..Len(loaded) |-> LanguageBreakdown(loaded[k])],
     frameworks |-> json_loads(row.frameworks_json),
     project_type |-> MemberOf(ProjectTypeMembers, row.project_type),
     style_pattern |-> MemberOf(StylePatternMembers, row.style_pattern),
     uses_scopes |-> row.uses_scopes # 0,
     common_scopes |-> json_loads(row.common_scopes_json),
     ticket_pattern |-> row.ticket_pattern,
     comparison_repos |-> json_loads(row.comparison_repos_json),
     industry_percentile |-> row.industry_percentile]

\* the row create_collaborator inserts, and MemoryStore._row_to_collaborator
CollaboratorRow(data, id) ==
    [id |-> id, repo_id |-> data.repo_id, name |-> data.name,
     email |-> data.email, commit_count |-> data.commit_count,
     avg_score |-> data.avg_score,
     primary_areas_json |-> json_dumps(data.primary_areas),
     area_summary |-> data.area_summary,
     roast_patterns_json |-> json_dumps(data.roast_patterns)]
row_to_collaborator(row) ==
    [id |-> row.id, repo_id |-> row.repo_id, name |-> row.name,
     email |-> row.email, commit_count |-> row.commit_count,
     avg_score |-> row.avg_score,
     primary_areas |-> json_loads(row.primary_areas_json),
     area_summary |-> row.area_summary,
     roast_patterns |-> json_loads(row.roast_patterns_json)]

\* the row create_exemplar inserts, and MemoryStore._row_to_exemplar
ExemplarRow(data, id) == WithId(data, id)
row_to_exemplar(row) ==
    [id |-> row.id, repo_id |-> row.repo_id,
     collaborator_id |-> row.collaborator_id,
     commit_hash |-> row.commit_hash, message |-> row.message,
     score |-> row.score, commit_type |-> row.commit_type,
     scope |-> row.scope, embedding |-> row.embedding]

\* the row create_antipattern inserts, and MemoryStore._row_to_antipattern
AntipatternRow(data, id) ==
    [id |-> id, repo_id |-> data.repo_id,
     collaborator_id |-> data.collaborator_id,
     pattern_type |-> ValueOf(AntipatternTypeMembers, data.pattern_type),
     example_message |-> data.example_message,
     frequency |-> data.frequency]
row_to_antipattern(row) ==
    [id |-> row.id, repo_id |-> row.repo_id,
     collaborator_id |-> row.collaborator_id,
     pattern_type |-> MemberOf(AntipatternTypeMembers, row.pattern_type),
     example_message |-> row.example_message,
     frequency |-> row.frequency]

\* the records handed to the create calls: optional fields given or not,
\* list fields empty or with two entries, enum and flag fields at their
\* default or not
RepositoryInputs ==
    { [url |-> IF opt THEN "https://example.com/u.git" ELSE NullStr,
       name |-> "x",
       primary_language |-> IF opt THEN "Python" ELSE NullStr,
       languages |->
          IF lists
            THEN << [language |-> "Python",
                     percentage |-> [num |-> 667, den |-> 10]],
                    [language |-> "JavaScript",
                     percentage |-> [num |-> 333, den |-> 10]] >>
            ELSE <<>>,
       frameworks |-> IF lists THEN <<"Flask", "Django">> ELSE <<>>,
       project_type |-> IF set THEN "WEB_APP" ELSE "UNKNOWN",
       style_pattern |-> IF set THEN "CONVENTIONAL" ELSE "FREEFORM",
       uses_scopes |-> set,
       common_scopes |-> IF lists THEN <<"auth", "api">> ELSE <<>>,
       ticket_pattern |-> IF opt THEN "^#(\\d+)" ELSE NullStr] :
      opt \in BOOLEAN, lists \in BOOLEAN, set \in BOOLEAN }
CollaboratorInputs ==
    { [repo_id |-> 1, name |-> "alice",
       email |-> IF opt THEN "alice@example.com" ELSE NullStr,
       commit_count |-> IF opt THEN 3 ELSE 0,
       avg_score |-> IF opt THEN [num |-> 17, den |-> 2] ELSE NullAvg,
       primary_areas |-> IF lists THEN <<"src/memory", "src/cli">> ELSE <<>>,
       area_summary |-> IF opt THEN "storage" ELSE NullStr,
       roast_patterns |->
          IF lists THEN <<"5x wip-chain: 'WIP'", "3x vague: 'fix'">>
          ELSE <<>>] :
      opt \in BOOLEAN, lists \in BOOLEAN }
ExemplarInputs ==
    { [repo_id |-> 1, collaborator_id |-> c, commit_hash |-> 1,
       message |-> MsgFeat, score |-> 9,
       commit_type |-> IF opt THEN "feat" ELSE NullStr,
       scope |-> IF opt THEN "auth" ELSE NullStr,
       embedding |-> IF opt THEN EmbeddingOf(TextOf("east"))
                     ELSE NullEmbedding] :
      c \in {NoId, 1}, opt \in BOOLEAN }
AntipatternInputs ==
    { [repo_id |-> 1, collaborator_id |-> c, pattern_type |-> t,
       example_message |-> MsgWip, frequency |-> 5] :
      c \in {NoId, 1}, t \in {"WIP_CHAIN", "CAPS_ABUSE"} }

\* create_repository(data), then get_repository(repo.id)
RoundTripRepository(data) ==
    LET id == seq.repositories + 1 IN
    /\ Idle
    /\ DirectRows < MaxRoundTrips
    /\ IF RepositoryInsertOk(repositories, data)
         THEN /\ repositories' = repositories \cup {RepositoryRow(data, id)}
              /\ seq' = [seq EXCEPT !.repositories = id]
              /\ last_call' =
                   [Call("get_repository", id, TRUE) EXCEPT
                      !.args = data,
                      !.returned = row_to_repository(
                         CHOOSE r \in repositories' : r.id = id)]
         ELSE /\ UNCHANGED <<repositories, seq>>
              /\ last_call' = Call("create_repository", NoId, FALSE)
    /\ UNCHANGED <<collaborators, exemplars, antipatterns, pc, locals, scored>>

\* create_collaborator(data), then get_collaborator(collaborator.id)
RoundTripCollaborator(data) ==
    LET id == seq.collaborators + 1 IN
    /\ Idle
    /\ DirectRows < MaxRoundTrips
    /\ IF CollaboratorInsertOk(repositories, collaborators, data)
         THEN /\ collaborators' =
                   collaborators \cup {CollaboratorRow(data, id)}
              /\ seq' = [seq EXCEPT !.collaborators = id]
              /\ last_call' =
                   [Call("get_collaborator", id, TRUE) EXCEPT
                      !.args = data,
                      !.returned = row_to_collaborator(
                         CHOOSE r \in collaborators' : r.id = id)]
         ELSE /\ UNCHANGED <<collaborators, seq>>
              /\ last_call' = Call("create_collaborator", NoId, FALSE)
    /\ UNCHANGED <<repositories, exemplars, antipatterns, pc, locals, scored>>

\* create_exemplar(data), then get_exemplar(exemplar.id)
RoundTripExemplar(data) ==
    LET id == seq.exemplars + 1 IN
    /\ Idle
    /\ DirectRows < MaxRoundTrips
    /\ IF ExemplarInsertOk(repositories, collaborators, exemplars, data)
         THEN /\ exemplars' = exemplars \cup {ExemplarRow(data, id)}
              /\ seq' = [seq EXCEPT !.exemplars = id]
              /\ last_call' =
                   [Call("get_exemplar", id, TRUE) EXCEPT
                      !.args = data,
                      !.returned = row_to_exemplar(
                         CHOOSE r \in exemplars' : r.id = id)]
         ELSE /\ UNCHANGED <<exemplars, seq>>
              /\ last_call' = Call("create_exemplar", NoId, FALSE)
    /\ UNCHANGED <<repositories, collaborators, antipatterns, pc, locals,
                   scored>>

\* create_antipattern(data), then get_antipattern(antipattern.id)
RoundTripAntipattern(data) ==
    LET id == seq.antipatterns + 1 IN
    /\ Idle
    /\ DirectRows < MaxRoundTrips
    /\ IF AntipatternInsertOk(repositories, collaborators, data)
         THEN /\ antipatterns' = antipatterns \cup {AntipatternRow(data, id)}
              /\ seq' = [seq EXCEPT !.antipatterns = id]
              /\ last_call' =
                   [Call("get_antipattern", id, TRUE) EXCEPT
                      !.args = data,
                      !.returned = row_to_antipattern(
                         CHOOSE r \in antipatterns' : r.id = id)]
         ELSE /\ UNCHANGED <<antipatterns, seq>>
              /\ last_call' = Call("create_antipattern", NoId, FALSE)
    /\ UNCHANGED <<repositories, collaborators, exemplars, pc, locals, scored>>

NextRoundTrip ==
    \/ \E data \in RepositoryInputs : RoundTripRepository(data)
    \/ \E data \in CollaboratorInputs : RoundTripCollaborator(data)
    \/ \E data \in ExemplarInputs : RoundTripExemplar(data)
    \/ \E data \in AntipatternInputs : RoundTripAntipattern(data)

SpecRoundTrip == Init /\ [][NextRoundTrip]_vars

(***************************************************************************)
(* CollaboratorProfiler._calculate_trend (src/memory/profiler.py).  The    *)
(* two averages are Python floats: an average of scores lies in [1, 16),   *)
(* where every double is a multiple of 2^-52, so a double is held as its   *)
(* integer part and its 52 fraction bits.                                  *)
(***************************************************************************)
MaxScores == 6
FractionBits == 52

\* the bits of r / m after the binary point, k of them, and the remainder
RECURSIVE LongDivision(_, _, _, _)
LongDivision(r, m, k, bits) ==
    IF k = 0 THEN [bits |-> bits, rem |-> r]
    ELSE LET d == 2 * r IN
         LongDivision(IF d >= m THEN d - m ELSE d, m, k - 1,
                      Append(bits, IF d >= m THEN 1 ELSE 0))

\* bits plus one unit in the last place, and the carry out of the first
RECURSIVE Increment(_)
Increment(bits) ==
    IF bits = <<>> THEN [bits |-> <<>>, carry |-> 1]
    ELSE IF bits[Len(bits)] = 0
      THEN [bits |-> [bits EXCEPT ![Len(bits)] = 1], carry |-> 0]
    ELSE LET front == Increment(SubSeq(bits, 1, Len(bits) - 1)) IN
         [bits |-> Append(front.bits, 0), carry |-> front.carry]

\* s / m for integers s >= m >= 1 with s / m < 16: the quotient rounded to
\* 53 significant bits, ties to even
TrueDivide(s, m) ==
    LET int == s \div m
        exponent == IF int >= 8 THEN 3 ELSE IF int >= 4 THEN 2
                    ELSE IF int >= 2 THEN 1 ELSE 0
        kept == FractionBits - exponent
        q == LongDivision(s % m, m, kept, <<>>)
        odd == IF kept = 0 THEN int % 2 = 1 ELSE q.bits[kept] = 1
        up == 2 * q.rem > m \/ (2 * q.rem = m /\ odd)
        rounded == IF up THEN Increment(q.bits)
                   ELSE [bits |-> q.bits, carry |-> 0] IN
    [int |-> int + rounded.carry,
     frac |-> rounded.bits \o [k \in 1..exponent |-> 0]]

\* a >= b for two such doubles
AtLeast(a, b) ==
    LET differ == { k \in 1..FractionBits : a.frac[k] # b.frac[k] } IN
    \/ a.int > b.int
    \/ /\ a.int = b.int
       /\ \/ differ = {}
          \/ a.frac[CHOOSE k \in differ : \A j \in differ : k <= j] = 1

\* a - b >= 1.0: the difference of two such doubles is a multiple of
\* 2^-52, the subtraction rounds it monotonically and 1.0 is a double, so
\* the rounded difference is >= 1.0 exactly when a >= b + 1
DiffAtLeastOne(a, b) == AtLeast(a, [b EXCEPT !.int = @ + 1])

\* CollaboratorProfiler._calculate_trend
calculate_trend(scores) ==
    IF Len(scores) < 5 THEN NullStr
    ELSE LET mid == Len(scores) \div 2
             recent_avg == TrueDivide(SumSeq(SubSeq(scores, 1, mid)), mid)
             older_avg ==
                TrueDivide(SumSeq(SubSeq(scores, mid + 1, Len(scores))),
                           Len(scores) - mid) IN
         IF DiffAtLeastOne(recent_avg, older_avg) THEN "improving"
         ELSE IF DiffAtLeastOne(older_avg, recent_avg) THEN "declining"
         ELSE "stable"

\* the score lists handed to build_profile, each score with its commit
TrendScores == {7, 8, 9}
ScoreLists == UNION { [1..n -> TrendScores] : n \in 0..MaxScores }
InitTrend ==
    \E scores \in ScoreLists :
       InitWith(<<>>, [k \in 1..Len(scores) |->
                         [commit |-> HistoryB(k), score |-> scores[k]]])

\* build_profile(name, commits, scores), the trend it reports
CalculateTrend ==
    LET scores == [k \in 1..Len(analysis_results) |->
                     analysis_results[k].score] IN
    /\ Idle
    /\ last_call' = [Call("calculate_trend", NoId, TRUE) EXCEPT
                       !.args = scores,
                       !.returned = calculate_trend(scores)]
    /\ UNCHANGED <<store, pc, locals, scored>>

SpecTrend == InitTrend /\ [][CalculateTrend]_vars


(***************************************************************************)
(* Properties of the store.                                                *)
(***************************************************************************)
\* C1: right after delete_repository(r) the store holds no repository row
\* with id r and no collaborator, exemplar or antipattern row whose
\* repo_id is r.
C1_DeleteRepositoryCascades ==
    last_call.op = "delete_repository" =>
        /\ \A r \in repositories : r.id # last_call.id
        /\ \A c \in collaborators : c.repo_id # last_call.id
        /\ \A e \in exemplars : e.repo_id # last_call.id
        /\ \A a \in antipatterns : a.repo_id # last_call.id

\* a delete_repository that removed the repository row together with a
\* collaborator, an exemplar and an antipattern, while another repository
\* stays
C1_Witness ==
    /\ last_call.op = "delete_repository"
    /\ last_call.deleted = 4
    /\ repositories # {}

\* the row a child row becomes when collaborator c is deleted
AfterCollaboratorDelete(row, c) ==
    IF row.collaborator_id = c THEN [row EXCEPT !.collaborator_id = NoId]
    ELSE row

\* C2: a step that deletes a collaborator row (its repository staying)
\* removes no exemplar and no antipattern: each one is still there
\* afterwards, with collaborator_id NULL if it referenced the collaborator
\* and otherwise unchanged, and no row was added.
C2_CollaboratorDeleteSetsNull ==
    [][ last_call'.op = "delete_collaborator_row" =>
          /\ exemplars' = { AfterCollaboratorDelete(e, last_call'.id) :
                              e \in exemplars }
          /\ Cardinality(exemplars') = Cardinality(exemplars)
          /\ antipatterns' = { AfterCollaboratorDelete(a, last_call'.id) :
                                 a \in antipatterns }
          /\ Cardinality(antipatterns') = Cardinality(antipatterns)
          /\ repositories' = repositories ]_vars

\* a collaborator row was deleted while an exemplar and an antipattern
\* referenced it, and both are still in the store
C2_Witness ==
    /\ last_call.op = "delete_collaborator_row"
    /\ last_call.deleted = 1
    /\ last_call.nulled = 2
    /\ exemplars # {}
    /\ antipatterns # {}

\* C3: no two repository rows have the same name.
C3_RepositoryNameUnique ==
    \A r1, r2 \in repositories : r1.name = r2.name => r1.id = r2.id

(***************************************************************************)
(* Properties of a seed run.                                               *)
(***************************************************************************)
Emitted(phase, status) ==
    \E k \in 1..Len(events) :
        events[k].phase = phase /\ events[k].status = status

EventsOf(phase, status) ==
    SelectSeq(events, LAMBDA e : e.phase = phase /\ e.status = status)

\* the repository rows that carry the name being seeded
NamedRows == { r \in repositories : r.name = repo_name }

\* C4: when seed found a row with the name, that row and its collaborators,
\* exemplars and antipatterns are gone by the time the first event is
\* emitted, and when seed returns exactly one repository row has the name
\* and its child rows all come from the commit list of this run.
C4_ReseedReplaces ==
    existing # NoId =>
        /\ events # <<>> =>
              /\ \A r \in repositories : r.id # existing
              /\ \A c \in collaborators : c.repo_id # existing
              /\ \A e \in exemplars : e.repo_id # existing
              /\ \A a \in antipatterns : a.repo_id # existing
        /\ pc = "done" =>
              /\ Cardinality(NamedRows) = 1
              /\ \A r \in NamedRows :
                    /\ \A e \in exemplars : e.repo_id = r.id =>
                          \E k \in 1..Len(commits) :
                              commits[k].hash = e.commit_hash
                    /\ \A c \in collaborators : c.repo_id = r.id =>
                          \E k \in 1..Len(commits) :
                              commits[k].author = c.name
                    /\ \A a \in antipatterns : a.repo_id = r.id =>
                          \E c \in collaborators :
                              c.id = a.collaborator_id /\ c.repo_id = r.id

\* C5 as stated: whenever a re-seed has raised, some repository row carries
\* the name.
C5_RowPresentAfterFailure ==
    (pc = "failed" /\ existing # NoId) =>
        \E r \in repositories : r.name = repo_name

\* C5: when a re-seed has raised, the row it found is gone; if
\* create_repository had returned, the row it created is in the store under
\* the name and no result was produced; if create_repository itself raised,
\* no phase-5 event was emitted and the failed insert is the last store call.
C5_RowPresentAfterLateFailure ==
    (pc = "failed" /\ existing # NoId) =>
        /\ \A r \in repositories : r.id # existing
        /\ repo # NoId =>
              /\ \E r \in repositories : r.id = repo /\ r.name = repo_name
              /\ ~Emitted(7, "done")
              /\ result = NoResult
        /\ repo = NoId =>
              /\ error = "IntegrityError"
              /\ last_call = Call("create_repository", NoId, FALSE)
              /\ ~Emitted(5, "started")

\* a re-seed that raised in phase 6, the new row being in the store
C5_Witness ==
    /\ pc = "failed"
    /\ existing # NoId
    /\ repo # NoId
    /\ error = "EmbeddingError"
    /\ \E r \in repositories : r.id = repo /\ r.name = repo_name

\* the scores of the scoring calls that returned, for the commits of one
\* author or (author = NullStr) of all
ReturnedScores(author) ==
    LET ks == SelectSeq([k \in 1..Len(calls) |-> k],
                        LAMBDA k : /\ calls[k].outcome # Raises
                                   /\ author \in {NullStr, commits[k].author})
    IN  [j \in 1..Len(ks) |-> calls[ks[j]].outcome]

C7_PhasesSequential ==
    /\ \A i, j \in 1..Len(events) :
          i < j => events[i].phase <= events[j].phase
    /\ \A j \in 1..Len(events) :
          /\ events[j].status # "started" =>
                \E i \in 1..(j - 1) : /\ events[i].phase = events[j].phase
                                     /\ events[i].status = "started"
          /\ events[j].status = "done" =>
                \A i \in (j + 1)..Len(events) :
                    events[i].phase # events[j].phase
          /\ events[j].phase > 3 =>
                \E i \in 1..(j - 1) : /\ events[i].phase = events[j].phase - 1
                                     /\ events[i].status = "done"
    /\ \A p \in 3..8 : /\ Len(EventsOf(p, "started")) <= 1
                       /\ Len(EventsOf(p, "done")) <= 1
    /\ pc = "done" =>
          \A p \in 3..7 : /\ Len(EventsOf(p, "started")) = 1
                          /\ Len(EventsOf(p, "done")) = 1

\* a run that returned after per-commit progress events and all of phases
\* 3 to 8
C7_Witness ==
    /\ pc = "done"
    /\ Len(EventsOf(5, "progress")) >= 2
    /\ Emitted(8, "done")

\* C8: phase 5 has emitted one progress event per scoring call made, one per
\* commit once the phase is done; the i-th names the i-th commit and carries
\* i / total * 100; the values increase strictly and the last one is 100.
C8_ProgressPerCommit ==
    LET ev == EventsOf(5, "progress")
        total == Len(commits) IN
    /\ Len(ev) = Len(calls)
    /\ Emitted(5, "done") => Len(ev) = total
    /\ \A i \in 1..Len(ev) :
          /\ ev[i].message = [i |-> i, total |-> total,
                              text |-> commits[i].message]
          /\ ev[i].progress.den > 0
          /\ ev[i].progress.num * total = i * 100 * ev[i].progress.den
    /\ \A i \in 1..(Len(ev) - 1) :
          ev[i].progress.num * ev[i + 1].progress.den
              < ev[i + 1].progress.num * ev[i].progress.den
    /\ (Emitted(5, "done") /\ total > 0) =>
          ev[total].progress.num = 100 * ev[total].progress.den

\* phase 5 is done for two commits, the scoring of the first having raised
\* and that of the second not
C8_Witness ==
    /\ Emitted(5, "done")
    /\ Len(EventsOf(5, "progress")) = 2
    /\ calls[1].outcome = Raises
    /\ calls[2].outcome # Raises

\* the scoring calls that returned a score at or above the threshold
Qualifying ==
    SelectSeq(calls, LAMBDA c : /\ c.outcome # Raises
                                /\ c.outcome >= exemplar_threshold)

\* the exemplar rows of the repository being seeded
SeededExemplars == { e \in exemplars : e.repo_id = repo }

\* C9: once phase 6 is done the repository has as many exemplar rows as
\* commits scored at or above the threshold, and the i-th such commit has a
\* row with its hash, its score and the i-th embedding of generate_batch.
C9_OneExemplarPerQualifyingCommit ==
    Emitted(6, "done") =>
        /\ Cardinality(SeededExemplars) = Len(Qualifying)
        /\ Qualifying # <<>> => Len(embeddings) = Len(Qualifying)
        /\ \A i \in 1..Len(Qualifying) :
              \E e \in SeededExemplars :
                  /\ e.commit_hash = Qualifying[i].hash
                  /\ e.score = Qualifying[i].outcome
                  /\ e.embedding = embeddings[i]

\* phase 6 is done with two exemplars whose embeddings differ, one commit
\* having scored exactly the threshold
C9_Witness ==
    /\ Emitted(6, "done")
    /\ Len(Qualifying) >= 2
    /\ embeddings[1] # embeddings[2]
    /\ \E i \in 1..Len(Qualifying) : Qualifying[i].outcome = exemplar_threshold

\* an embedding call was made that returned nothing
EmbedFailed == SumSeq(embed_calls) > Len(embeddings)

\* C10: once an embedding call has failed the run has raised with that
\* error, phase 6 has no 'done' event, and the store holds the new
\* repository row without any exemplar, collaborator or antipattern row.
C10_EmbeddingFailureAborts ==
    EmbedFailed =>
        /\ pc = "failed"
        /\ error = "EmbeddingError"
        /\ ~Emitted(6, "done")
        /\ \E r \in repositories : r.id = repo /\ r.name = repo_name
        /\ \A e \in exemplars : e.repo_id # repo
        /\ \A c \in collaborators : c.repo_id # repo
        /\ \A a \in antipatterns : a.repo_id # repo

\* the second chunk failed after the first one had been embedded
C10_Witness ==
    /\ EmbedFailed
    /\ Len(embed_calls) = 2
    /\ Len(embeddings) = chunk_size
    /\ pc = "failed"

\* the scores that the store rows of the repository being seeded carry:
\* repositories has no score column, exemplars has score and collaborators
\* has avg_score
StoredScores ==
    { e.score : e \in { x \in exemplars : x.repo_id = repo } }
      \cup { c.avg_score.num :
               c \in { x \in collaborators :
                         x.repo_id = repo /\ x.avg_score # NullAvg } }

\* C11 as stated: once an embedding call has failed, every score a scoring
\* call returned is held by a store row of the repository, the commit's
\* exemplar or its author's collaborator row.
C11_ScoresPersisted ==
    EmbedFailed =>
        \A k \in 1..Len(calls) : calls[k].outcome # Raises =>
            \/ \E e \in exemplars : /\ e.repo_id = repo
                                    /\ e.commit_hash = calls[k].hash
                                    /\ e.score = calls[k].outcome
            \/ \E c \in collaborators : /\ c.repo_id = repo
                                        /\ c.name = commits[k].author
                                        /\ c.avg_score # NullAvg

\* C11: once an embedding call has failed, scores had been returned in
\* phase 5 and are in the results list of the run, and no store row of the
\* repository carries any score.
C11_ScoresOnlyInMemory ==
    EmbedFailed =>
        /\ Qualifying # <<>>
        /\ Len(analysis_results) = Len(ReturnedScores(NullStr))
        /\ \A k \in 1..Len(analysis_results) :
              analysis_results[k].score = ReturnedScores(NullStr)[k]
        /\ StoredScores = {}

\* the one embedding call of a short history failed after phase 5 had
\* returned scores for two commits
C11_Witness ==
    /\ EmbedFailed
    /\ Len(embed_calls) = 1
    /\ Len(analysis_results) = 2
    /\ StoredScores = {}

\* the collaborator rows of the repository being seeded
SeededCollaborators == { c \in collaborators : c.repo_id = repo }

\* the positions in the commit list of one author's commits
PositionsOf(author) == { k \in 1..Len(commits) : commits[k].author = author }

\* C12: when seed has returned, every author of the commit list has exactly
\* one collaborator row of the repository and every such row is an
\* author's; its commit_count is the number of the author's commits in the
\* list and its avg_score the mean of the scores returned for them, NULL
\* when none was returned.
C12_OneCollaboratorPerAuthor ==
    pc = "done" =>
        /\ \A k \in 1..Len(commits) :
              Cardinality({ c \in SeededCollaborators :
                              c.name = commits[k].author }) = 1
        /\ \A c \in SeededCollaborators :
              /\ PositionsOf(c.name) # {}
              /\ c.commit_count = Cardinality(PositionsOf(c.name))
              /\ c.avg_score = IF ReturnedScores(c.name) = <<>> THEN NullAvg
                               ELSE Mean(ReturnedScores(c.name))
              /\ c.avg_score # NullAvg =>
                    c.avg_score.num * Len(ReturnedScores(c.name))
                        = SumSeq(ReturnedScores(c.name)) * c.avg_score.den

\* seed returned for two authors, the one with a score and the other one,
\* whose only scoring call raised, with avg_score NULL
C12_Witness ==
    /\ pc = "done"
    /\ Cardinality(SeededCollaborators) = 2
    /\ \E c \in SeededCollaborators : c.avg_score = NullAvg /\ c.commit_count = 1
    /\ \E c \in SeededCollaborators : c.avg_score # NullAvg

\* every commit of the run carries files_changed as a count
CountFormRun ==
    /\ commits # <<>>
    /\ \A k \in 1..Len(commits) : ~commits[k].files_changed.is_list

\* C13: a run whose commits carry files_changed as a count raises no
\* TypeError, and when it has returned every collaborator row of the
\* repository has empty primary_areas.
C13_CountFormDegrades ==
    CountFormRun =>
        /\ error # "TypeError"
        /\ pc = "done" => /\ SeededCollaborators # {}
                          /\ \A c \in SeededCollaborators :
                                c.primary_areas = <<>>

\* C14: every exemplar row has a score from 8 to 10; a create_exemplar
\* given a score outside that range fails in the validation of
\* ExemplarCreate, and such a step leaves the four tables as they were.
C14_ExemplarScoreInRange ==
    /\ [](\A e \in exemplars : e.score >= 8 /\ e.score <= 10)
    /\ []((last_call.score # 0 /\ ~(last_call.score \in 8..10)) =>
            (last_call.op = "ExemplarCreate" /\ ~last_call.ok))
    /\ [][last_call'.op = "ExemplarCreate" => store' = store]_vars

\* a score of 11 was refused while the store holds an exemplar row
C14_Witness ==
    /\ last_call.op = "ExemplarCreate"
    /\ last_call.score = 11
    /\ exemplars # {}

\* the four tables
Tables == <<repositories, collaborators, exemplars, antipatterns>>

\* C15: a create_collaborator or create_exemplar whose INSERT raises
\* leaves the four tables exactly as they were and reports the failure;
\* collaborators stay unique on (repo_id, name) and exemplars on
\* (repo_id, commit_hash).
C15_FailedWriteRolledBack ==
    /\ [](\A c, d \in collaborators :
            (c.repo_id = d.repo_id /\ c.name = d.name) => c = d)
    /\ [](\A e, f \in exemplars :
            (e.repo_id = f.repo_id /\ e.commit_hash = f.commit_hash) => e = f)
    /\ [][(/\ last_call'.op \in {"create_collaborator", "create_exemplar"}
           /\ last_call' # last_call
           /\ ~last_call'.ok) => Tables' = Tables]_vars
    /\ [][(/\ last_call'.op = "create_collaborator"
           /\ last_call'.ok) =>
             Cardinality(collaborators') = Cardinality(collaborators) + 1]_vars

\* the only repository ever created holds both authors, and a further
\* create_collaborator for it was refused: the refusal is a duplicate
C15_Witness ==
    /\ seq.repositories = 1
    /\ Cardinality(repositories) = 1
    /\ Cardinality(collaborators) = 2
    /\ last_call.op = "create_collaborator"
    /\ ~last_call.ok

\* generate_batch has returned its list
BatchReturned == texts # <<>> /\ pc # "generate_batch" /\ ~EmbedFailed

Eligible ==
    { e \in exemplars : e.repo_id = last_call.args.repo_id
                          /\ e.embedding # NullEmbedding }
SimilarityTo(e) ==
    cosine_similarity(frombuffer(last_call.args.embedding),
                      frombuffer(e.embedding))
Returned == { last_call.returned[i].exemplar : i \in 1..Len(last_call.returned) }

\* C17: find_similar_exemplars returns at most `limit` pairs, in
\* non-increasing order of similarity; each pair holds an exemplar of the
\* repository that has a stored embedding, with its similarity to the query;
\* no exemplar left out is strictly more similar than one returned.
C17_TopSimilar ==
    last_call.op = "find_similar_exemplars" =>
      LET found == last_call.returned IN
      /\ Len(found) <= last_call.args.limit
      /\ \A i, j \in 1..Len(found) :
            i < j => ~Less(found[i].similarity, found[j].similarity)
      /\ \A i \in 1..Len(found) :
            /\ found[i].exemplar \in Eligible
            /\ found[i].similarity = SimilarityTo(found[i].exemplar)
      /\ \A e \in Eligible \ Returned : \A i \in 1..Len(found) :
            ~Less(found[i].similarity, SimilarityTo(e))

\* two of three eligible exemplars are returned, the first strictly more
\* similar than the second
C17_Witness ==
    /\ last_call.op = "find_similar_exemplars"
    /\ last_call.args.limit = 2
    /\ Len(last_call.returned) = 2
    /\ Less(last_call.returned[2].similarity, last_call.returned[1].similarity)
    /\ Eligible \ Returned # {}

\* how many messages of the last extract_style satisfy each test
StyleTotal == Len(last_call.args)
ConventionalShare ==
    Cardinality({ k \in 1..StyleTotal :
                    StartsConventional(last_call.args[k].message) })
EmojiShare ==
    Cardinality({ k \in 1..StyleTotal :
                    MatchesEmoji(last_call.args[k].message) })
TicketShare ==
    Cardinality({ k \in 1..StyleTotal :
                    MatchesTicket(last_call.args[k].message) })
Reaches(count) == StyleTotal > 0 /\ 100 * count >= 30 * StyleTotal

\* C18: the pattern is the first of conventional, emoji, ticket whose count
\* of matching messages is at least 30% of the messages, whatever the counts
\* of the later ones; it is freeform when none reaches 30% and when there
\* are no commits.
C18_FirstCategoryWins ==
    last_call.op = "extract_style" =>
      /\ Reaches(ConventionalShare) =>
            last_call.returned.pattern = "conventional"
      /\ (~Reaches(ConventionalShare) /\ Reaches(EmojiShare)) =>
            last_call.returned.pattern = "emoji"
      /\ (~Reaches(ConventionalShare) /\ ~Reaches(EmojiShare)
            /\ Reaches(TicketShare)) =>
            last_call.returned.pattern = "ticket"
      /\ (~Reaches(ConventionalShare) /\ ~Reaches(EmojiShare)
            /\ ~Reaches(TicketShare)) =>
            last_call.returned.pattern = "freeform"
      /\ StyleTotal = 0 => last_call.returned.pattern = "freeform"

\* conventional wins with exactly 30% against more emoji messages
C18_Witness ==
    /\ last_call.op = "extract_style"
    /\ last_call.returned.pattern = "conventional"
    /\ 10 * ConventionalShare = 3 * StyleTotal
    /\ EmojiShare > ConventionalShare

\* the author's commits of the last extract_antipatterns, in input order
OwnCommits(author) ==
    SelectSeq(last_call.args, LAMBDA c : c.author = author)
\* positions i..j of the author's commits are all work-in-progress messages
WipRun(author, i, j) ==
    /\ i <= j
    /\ \A k \in i..j : IsWip(OwnCommits(author)[k].message)
\* the length of the author's longest such run, 0 when there is none
LongestWipRun(author) ==
    LET n == Len(OwnCommits(author))
        lengths == {0} \cup { j - i + 1 : i \in 1..n, j \in 1..n }
    IN  CHOOSE l \in lengths :
          /\ l = 0 \/ \E i, j \in 1..n : j - i + 1 = l /\ WipRun(author, i, j)
          /\ \A i, j \in 1..n : WipRun(author, i, j) => j - i + 1 <= l
WipChains(author) ==
    SelectSeq(last_call.returned[author],
              LAMBDA p : p.pattern_type = "wip-chain")

PercentageTenths ==
    SumSeq([k \in 1..Len(last_call.returned.languages) |->
              last_call.returned.languages[k].percentage.num])

\* C20: the percentages of the language breakdown sum to at most 100.
C20_PercentagesAtMost100 ==
    last_call.op = "extract_dna" => PercentageTenths <= 1000

\* C21: extract_dna never raises; a response that is not exactly one of the
\* ProjectType values gives project_type unknown; without detected
\* languages it gives unknown and makes no oracle call.
C21_UnknownUnlessExactValue ==
    last_call.op = "extract_dna" =>
      /\ last_call.ok
      /\ ~(last_call.args.response \in ProjectTypes) =>
            last_call.returned.project_type = "unknown"
      /\ last_call.returned.languages = <<>> =>
            /\ last_call.returned.project_type = "unknown"
            /\ last_call.returned.oracle_calls = 0

\* the calls that read a created record back by its id
ReadBacks == {"get_repository", "get_collaborator", "get_exemplar",
              "get_antipattern"}

\* C22: the record read back by id after a create has, in every field that
\* was supplied, the value that was supplied: lists in the same order, enum
\* fields as the same member.
C22_RoundTrip ==
    last_call.op \in ReadBacks =>
      /\ last_call.returned.id = last_call.id
      /\ \A f \in DOMAIN last_call.args :
            last_call.returned[f] = last_call.args[f]

\* a repository with two-entry lists, enum fields off their defaults and
\* uses_scopes set was read back
C22_Witness ==
    /\ last_call.op = "get_repository"
    /\ Len(last_call.args.languages) = 2
    /\ last_call.args.frameworks = <<"Flask", "Django">>
    /\ last_call.args.project_type = "WEB_APP"
    /\ last_call.args.uses_scopes
    /\ last_call.returned.project_type = "WEB_APP"

\* MemoryStore.get_stats
get_stats ==
    [repositories |-> Cardinality(repositories),
     collaborators |-> Cardinality(collaborators),
     exemplars |-> Cardinality(exemplars),
     antipatterns |-> Cardinality(antipatterns)]

\* C23: right after clear_all, get_stats reports 0 for each of the four
\* tables, whatever they held before.
C23_ClearAllEmpties ==
    last_call.op = "clear_all" =>
      get_stats = [repositories |-> 0, collaborators |-> 0, exemplars |-> 0,
                   antipatterns |-> 0]

\* clear_all ran on a store that held a row in each of the four tables
C23_Witness ==
    /\ last_call.op = "clear_all"
    /\ last_call.deleted = 4
    /\ seq.repositories = 1 /\ seq.collaborators = 1
    /\ seq.exemplars = 1 /\ seq.antipatterns = 1

\* the sums of the recent and the older half of the last score list
TrendMid == Len(last_call.args) \div 2
RecentSum == SumSeq(SubSeq(last_call.args, 1, TrendMid))
OlderSum == SumSeq(SubSeq(last_call.args, TrendMid + 1, Len(last_call.args)))
\* (mean of the recent half) - (mean of the older half), times the two
\* half lengths
ScaledDifference ==
    RecentSum * (Len(last_call.args) - TrendMid) - OlderSum * TrendMid
ScaledOne == TrendMid * (Len(last_call.args) - TrendMid)

\* C24: the trend is null for fewer than 5 scores; otherwise it is
\* improving when the mean of the first half exceeds the mean of the rest
\* by 1.0 or more, declining when it is lower by 1.0 or more, else stable.
C24_TrendByHalves ==
    last_call.op = "calculate_trend" =>
      last_call.returned =
        IF Len(last_call.args) < 5 THEN NullStr
        ELSE IF ScaledDifference >= ScaledOne THEN "improving"
        ELSE IF ScaledDifference <= -ScaledOne THEN "declining"
        ELSE "stable"

\* the seed has run _profile_contributors with include_roasts = False
RoastsSkipped == pc \in {"phase8", "done"} /\ ~counts.include_roasts

\* C25: when seed runs with include_roasts = false, no antipattern row is
\* stored for the repository, every collaborator row of it has empty
\* roast_patterns, each author of the history has a collaborator row, and
\* the result has has_roasts = false and antipattern_count = 0.
C25_RoastsSkippable ==
    RoastsSkipped =>
      /\ \A a \in antipatterns : a.repo_id # repo
      /\ \A c \in collaborators : c.repo_id = repo => c.roast_patterns = <<>>
      /\ \A k \in 1..Len(commits) :
            \E c \in collaborators :
               c.repo_id = repo /\ c.name = commits[k].author
      /\ pc = "done" =>
            /\ result.repo_id = repo
            /\ ~result.has_roasts
            /\ result.antipattern_count = 0
            /\ result.collaborator_count =
                  Cardinality({ commits[k].author : k \in 1..Len(commits) })

\* a seed without roasts has returned for a history in which the extractor
\* would have found patterns
C25_Witness ==
    /\ pc = "done"
    /\ ~counts.include_roasts
    /\ \E author \in Authors : extract_antipatterns(commits, author) # <<>>
    /\ \E c \in collaborators : c.repo_id = repo

\* C26: list_exemplars(repo_id, limit) returns only exemplars of repo_id,
\* in non-increasing score order, and at most limit of them whenever a
\* limit is given.
C26_ListedByScoreWithinLimit ==
    last_call.op = "list_exemplars" =>
      LET rows == last_call.returned IN
      /\ \A k \in 1..Len(rows) : rows[k].repo_id = last_call.args.repo_id
      /\ \A i, j \in 1..Len(rows) : i < j => rows[i].score >= rows[j].score
      /\ last_call.args.limit.given => Len(rows) <= last_call.args.limit.value

\* the ids of the repository and of the collaborator rows
RepositoryIds == { r.id : r \in repositories }
CollaboratorIds == { c.id : c \in collaborators }

\* every child row names an existing repository, and an existing
\* collaborator where it names one
ReferentialIntegrity ==
    /\ \A c \in collaborators : c.repo_id \in RepositoryIds
    /\ \A e \in exemplars \cup antipatterns :
          /\ e.repo_id \in RepositoryIds
          /\ e.collaborator_id # NoId => e.collaborator_id \in CollaboratorIds

\* the collaborator, exemplar and antipattern rows with their tables
ChildRows ==
    { <<"collaborators", row>> : row \in collaborators }
       \cup { <<"exemplars", row>> : row \in exemplars }
       \cup { <<"antipatterns", row>> : row \in antipatterns }

\* C27: in every reachable store state each collaborator, exemplar and
\* antipattern row has a repo_id naming an existing repository row and each
\* non-null collaborator_id names an existing collaborator row; no step
\* adds a child row whose repo_id names no repository row, and a create of
\* a child row that adds no row has failed.
C27_ReferentialIntegrity ==
    /\ []ReferentialIntegrity
    /\ [][\A child \in ChildRows' :
            child[2].id > seq[child[1]] =>
               child[2].repo_id \in RepositoryIds]_vars
    /\ [][(/\ last_call'.op \in {"create_collaborator", "create_exemplar",
                                  "create_antipattern"}
           /\ last_call' # last_call
           /\ Tables' = Tables) => ~last_call'.ok]_vars

\* an antipattern was refused although every collaborator ever created is
\* still there: the refusal is for the repository, which is gone, while
\* another repository keeps its collaborator
C27_Witness ==
    /\ last_call.op = "create_antipattern"
    /\ ~last_call.ok
    /\ collaborators # {}
    /\ Cardinality(collaborators) = seq.collaborators
    /\ Cardinality(repositories) < seq.repositories

\* the rows of a table that do not belong to repository r
Outside(rows, r) == { row \in rows : row.repo_id # r }

\* C28: delete_repository(r) leaves every other repository row, and every
\* collaborator, exemplar and antipattern row whose repo_id is not r,
\* unchanged in every field.
C28_DeleteTouchesOnlyItsRepository ==
    [][\A r \in 1..seq.repositories :
         delete_repository(r) =>
            /\ { row \in repositories' : row.id # r }
                  = { row \in repositories : row.id # r }
            /\ Outside(collaborators', r) = Outside(collaborators, r)
            /\ Outside(exemplars', r) = Outside(exemplars, r)
            /\ Outside(antipatterns', r) = Outside(antipatterns, r)]_vars

\* C29: when seed returns, the exemplar_count, collaborator_count and
\* antipattern_count of its SeedingResult are the numbers of exemplar,
\* collaborator and antipattern rows stored for repo_id, whatever the
\* scoring and embedding oracles answered.
C29_ResultCountsRows ==
    pc = "done" =>
      /\ result.exemplar_count =
            Cardinality({ e \in exemplars : e.repo_id = result.repo_id })
      /\ result.collaborator_count =
            Cardinality({ c \in collaborators : c.repo_id = result.repo_id })
      /\ result.antipattern_count =
            Cardinality({ a \in antipatterns : a.repo_id = result.repo_id })

\* C30: whenever extract_style classifies the pattern of a message set as
\* ticket, the ticket_pattern it reports for the same set is not null.
C30_TicketStyleHasTicketPattern ==
    (last_call.op = "extract_style"
       /\ last_call.returned.pattern = "ticket") =>
          last_call.returned.ticket_pattern # NullStr

====
